---- MODULE Spec2Model ----
(***************************************************************************)
(* State-machine model of PlanValidator (src/validatePlan.py): the static  *)
(* pass (structure check, type resolution, controller-service check), the  *)
(* retry / oracle-repair / exit prompt, the sandbox pass that creates,     *)
(* inspects and deletes one NiFi processor per attempt, and the final save *)
(* and exit.                                                               *)
(*                                                                         *)
(* Encoding of the JSON values:                                            *)
(*  - a JSON object is a function with a domain of strings, so that        *)
(*    `"k" in obj` is  "k" \in DOMAIN obj ;  {} is the empty function;     *)
(*  - a processor type name is the sequence of its dot-separated segments  *)
(*    ("org.a.Run" is <<"org","a","Run">>, "" is << >>), which is what     *)
(*    fqcn.endswith("." + p_type) needs;                                   *)
(*  - auto_terminated_relationships and a connection's relationships are   *)
(*    sets: the code only ever reads them through set(...) / update(...).  *)
(***************************************************************************)
EXTENDS Integers, Sequences, FiniteSets, TLC

VARIABLES
    disk,                        \* content of plan.json
    data,                        \* self.data
    errors,                      \* self.errors
    changes_made,                \* self.changes_made
    available_processor_types,   \* self.available_processor_types (keys)
    gemini_api_key,              \* self.gemini_api_key is set (then self.client is too)
    max_retries,                 \* self.max_retries
    sandbox_pg_id,               \* self.sandbox_pg_id is set
    pc,                          \* position in run()
    connections_map,             \* local of validate_processor_configuration
    index,                       \* loop variable of the processor loop (1-based)
    retry_count,                 \* local retry_count
    proc_data,                   \* the creation response being inspected
    bound_locals,                \* locals of the function that are bound so far
    filtered_errors,             \* local filtered_errors of the attempt
    relationship_errors,         \* local relationship_errors of the attempt
    live,                        \* runtime: sandbox instances with no delete issued
    deleted,                     \* runtime: instances a delete was issued for
    delete_request,              \* the last delete request issued: id and version
    submitted,                   \* per processor, the config of its last create request
    creates,                     \* create requests issued, per processor
    oracle_calls,                \* oracle calls made, per processor
    outcome,                     \* how the validation of each processor ended
    exit_status,                 \* "running", "exit0", "exit1" or "crash"
    builder_invoked              \* os.system("python buildPipeline.py") was run

vars == <<disk, data, errors, changes_made, available_processor_types,
          gemini_api_key, max_retries, sandbox_pg_id, pc, connections_map,
          index, retry_count, proc_data, bound_locals, filtered_errors,
          relationship_errors, live, deleted, delete_request, submitted,
          creates,
          oracle_calls, outcome, exit_status, builder_invoked>>

-----------------------------------------------------------------------------
(* Bounds of the model *)

\* largest value of MAX_VALIDATION_FIX_RETRIES explored
MaxRetriesBound == 1

\* smallest value of MAX_VALIDATION_FIX_RETRIES explored is -MinRetriesBound
MinRetriesBound == 1

-----------------------------------------------------------------------------
(* Helpers for JSON values *)

Has(obj, k) == k \in DOMAIN obj


\* dict.get(k, default)
Get(obj, k, default) == IF Has(obj, k) THEN obj[k] ELSE default

\* the value {} / "" : an empty function is an empty sequence
Empty == << >>

RECURSIVE Flatten(_)
Flatten(ss) == IF ss = << >> THEN << >> ELSE Head(ss) \o Flatten(Tail(ss))

\* d with d[k] = v
Put(d, k, v) == [x \in DOMAIN d \cup {k} |-> IF x = k THEN v ELSE d[x]]

\* isinstance(obj[k], <the type the code expects>): an object of the plan
\* carries, in the field "mistyped", the keys whose JSON value has another
\* type than the plan's schema gives them.
IsInstance(obj, k) == k \notin obj.mistyped

\* `not self.data`: an empty JSON object
IsFalsy(obj) == DOMAIN obj \subseteq {"mistyped"}

-----------------------------------------------------------------------------
(* The runtime: its type catalog and what a created processor reports *)

\* processorTypes returned by GET /nifi-api/flow/processor-types
Catalog ==
    { <<"org", "a", "Run">>,
      <<"org", "a", "Get">>, <<"org", "b", "Get">>,
      <<"org", "a", "Put">>, <<"a", "Put">> }

\* component.supportsDynamicProperties of a created processor
SupportsDynamicProperties(type) == type[Len(type)] = "Put"

\* component.config.descriptors of a created processor: property name ->
\* [identifiesControllerService present, allowableValues]
Descriptors(type) ==
    IF type[Len(type)] = "Get"
    THEN [cs  |-> [identifiesControllerService |-> TRUE,
                   allowableValues |-> {"svc1", "svc2"}]]
    ELSE [cs  |-> [identifiesControllerService |-> TRUE,
                   allowableValues |-> {"svc1"}],
          one |-> [identifiesControllerService |-> FALSE,
                   allowableValues |-> {"only"}]]

\* component.relationships of a created processor
Relationships(type) ==
    IF type[Len(type)] = "Put" THEN {"success"} ELSE {"success", "failure"}

\* component.validationErrors a creation may report: "cfg" stands for a
\* property diagnostic, "rel" for one starting with 'Relationship, "up" for
\* one starting with 'Upstream Connections
ValidationErrorSets == { << >>, <<"cfg">>, <<"rel", "up">>, <<"rel", "cfg">> }

-----------------------------------------------------------------------------
(* Errors: every entry of self.errors is [kind, index, detail]; index is the *)
(* position of the processor or connection the message names (0: none).     *)

Err(kind, i, detail) == [kind |-> kind, index |-> i, detail |-> detail]

StaticKinds == {"missing_field", "wrong_type", "fetch_failed",
                "type_ambiguous", "type_not_found", "cs_placeholder"}

\* the errors of kind k about processor (or connection) i
ErrorsOf(errs, k, i) ==
    {j \in 1..Len(errs) : errs[j].kind = k /\ errs[j].index = i}

-----------------------------------------------------------------------------
(* validate_structure *)

RequiredProcessorFields ==
    <<"id", "name", "properties", "scheduling",
      "auto_terminated_relationships", "type">>

\* mutant: a connection must carry an id as well
RequiredConnectionFields_WithId == <<"id", "from_id", "to_id", "relationships">>

RequiredConnectionFields == <<"from_id", "to_id", "relationships">>

\* mutant: the loop over the fields stops at the first defect
FieldErrors_StopsAtFirst(where, i, obj, fields) ==
    LET all == Flatten([j \in 1..Len(fields) |->
                   IF ~Has(obj, fields[j])
                   THEN <<Err("missing_field", i, <<where, fields[j]>>)>>
                   ELSE IF ~IsInstance(obj, fields[j])
                   THEN <<Err("wrong_type", i, <<where, fields[j]>>)>>
                   ELSE << >>])
    IN IF all = << >> THEN << >> ELSE <<all[1]>>

\* the inner loop over the required fields of one processor or connection
FieldErrors(where, i, obj, fields) ==
    Flatten([j \in 1..Len(fields) |->
        IF ~Has(obj, fields[j])
        THEN <<Err("missing_field", i, <<where, fields[j]>>)>>
        ELSE IF ~IsInstance(obj, fields[j])
        THEN <<Err("wrong_type", i, <<where, fields[j]>>)>>
        ELSE << >>])

\* the errors validate_structure appends for the document d
StructureErrors(d) ==
    IF IsFalsy(d) THEN << >>
    ELSE
      (IF ~Has(d, "plan_summary")
       THEN <<Err("missing_field", 0, <<"plan", "plan_summary">>)>>
       ELSE IF ~IsInstance(d, "plan_summary")
       THEN <<Err("wrong_type", 0, <<"plan", "plan_summary">>)>>
       ELSE << >>)
      \o
      (IF ~Has(d, "plan_details")
       THEN <<Err("missing_field", 0, <<"plan", "plan_details">>)>>
       ELSE IF ~IsInstance(d, "plan_details")
       THEN <<Err("wrong_type", 0, <<"plan", "plan_details">>)>>
       ELSE
         LET details == d.plan_details IN
         (IF ~Has(details, "processors")
          THEN <<Err("missing_field", 0, <<"plan_details", "processors">>)>>
          ELSE IF ~IsInstance(details, "processors")
          THEN <<Err("wrong_type", 0, <<"plan_details", "processors">>)>>
          ELSE Flatten([i \in 1..Len(details.processors) |->
                  FieldErrors("Processor", i, details.processors[i],
                              RequiredProcessorFields)]))
         \o
         (IF ~Has(details, "connections")
          THEN <<Err("missing_field", 0, <<"plan_details", "connections">>)>>
          ELSE IF ~IsInstance(details, "connections")
          THEN <<Err("wrong_type", 0, <<"plan_details", "connections">>)>>
          ELSE Flatten([i \in 1..Len(details.connections) |->
                  FieldErrors("Connection", i, details.connections[i],
                              RequiredConnectionFields)])))

-----------------------------------------------------------------------------
(* validate_processor_types *)

\* the guard the three passes over the processors share:
\* not self.data or "plan_details" not in self.data
\*              or "processors" not in self.data["plan_details"]
NoProcessors(d) ==
    \/ IsFalsy(d)
    \/ ~Has(d, "plan_details")
    \/ ~IsInstance(d, "plan_details")
    \/ ~Has(d.plan_details, "processors")

\* fqcn.endswith("." + p_type): the last Len(p_type) segments of fqcn are
\* p_type and a segment precedes them; no name ends with "." alone
EndsWithDot(fqcn, p_type) ==
    /\ Len(p_type) >= 1
    /\ Len(fqcn) > Len(p_type)
    /\ SubSeq(fqcn, Len(fqcn) - Len(p_type) + 1, Len(fqcn)) = p_type

\* possible_matches
PossibleMatches(types, p_type) ==
    {fqcn \in types : EndsWithDot(fqcn, p_type) \/ fqcn = p_type}

\* mutant: the exact match is not looked for first
SkipsType_NoExactMatch(types, processor) ==
    \/ ~Has(processor, "type")
    \/ processor.type = Empty

\* `if not p_type: continue` and `if p_type in self.available_processor_types`
SkipsType(types, processor) ==
    \/ ~Has(processor, "type")
    \/ processor.type = Empty
    \/ processor.type \in types

\* mutant: among several candidates the first is taken
ResolveType_PicksOne(types, i, processor) ==
    IF SkipsType(types, processor)
    THEN [processor |-> processor, errs |-> << >>, changed |-> FALSE]
    ELSE LET possible_matches == PossibleMatches(types, processor.type) IN
         IF possible_matches # {}
         THEN LET matched_fqcn == CHOOSE f \in possible_matches : TRUE IN
              [processor |-> [processor EXCEPT !.type = matched_fqcn],
               errs |-> << >>,
               changed |-> processor.type # matched_fqcn]
         ELSE [processor |-> processor,
               errs |-> <<Err("type_not_found", i, processor.type)>>,
               changed |-> FALSE]

\* one iteration of the loop over the processors:
\* the processor afterwards, the errors appended, and whether it was changed
ResolveType(types, i, processor) ==
    IF SkipsType(types, processor)
    THEN [processor |-> processor, errs |-> << >>, changed |-> FALSE]
    ELSE LET possible_matches == PossibleMatches(types, processor.type) IN
         IF Cardinality(possible_matches) = 1
         THEN LET matched_fqcn == CHOOSE f \in possible_matches : TRUE IN
              [processor |-> [processor EXCEPT !.type = matched_fqcn],
               errs |-> << >>,
               changed |-> processor.type # matched_fqcn]
         ELSE IF Cardinality(possible_matches) > 1
         THEN [processor |-> processor,
               errs |-> <<Err("type_ambiguous", i, possible_matches)>>,
               changed |-> FALSE]
         ELSE [processor |-> processor,
               errs |-> <<Err("type_not_found", i, processor.type)>>,
               changed |-> FALSE]

\* mutant: self.changes_made is not set after a rewrite
ResolveTypes_NeverDirty(types, processors) ==
    LET r == [i \in 1..Len(processors) |-> ResolveType(types, i, processors[i])] IN
    [processors |-> [i \in 1..Len(processors) |-> r[i].processor],
     errs |-> Flatten([i \in 1..Len(processors) |-> r[i].errs]),
     changed |-> FALSE]

\* the whole loop: the processors afterwards, the errors appended in order,
\* and the local changes_made
ResolveTypes(types, processors) ==
    LET r == [i \in 1..Len(processors) |-> ResolveType(types, i, processors[i])] IN
    [processors |-> [i \in 1..Len(processors) |-> r[i].processor],
     errs |-> Flatten([i \in 1..Len(processors) |-> r[i].errs]),
     changed |-> \E i \in 1..Len(processors) : r[i].changed]

-----------------------------------------------------------------------------
(* validate_controller_services *)

\* the errors appended for the processors, in order; the properties of one
\* processor are visited in the order of their names
PlaceholderKeys(processor) ==
    LET properties == Get(processor, "properties", Empty) IN
    {k \in DOMAIN properties : properties[k] = "CREATE_NEW_CS"}

RECURSIVE SetToSeq(_)
SetToSeq(S) ==
    IF S = {} THEN << >>
    ELSE LET x == CHOOSE y \in S : TRUE IN <<x>> \o SetToSeq(S \ {x})

\* mutant: a processor is reported once, for its first placeholder
ControllerServiceErrors_OncePerProcessor(processors) ==
    Flatten([i \in 1..Len(processors) |->
        LET ks == SetToSeq(PlaceholderKeys(processors[i])) IN
        IF ks = << >> THEN << >> ELSE <<Err("cs_placeholder", i, ks[1])>>])

ControllerServiceErrors(processors) ==
    Flatten([i \in 1..Len(processors) |->
        LET ks == SetToSeq(PlaceholderKeys(processors[i])) IN
        [j \in 1..Len(ks) |-> Err("cs_placeholder", i, ks[j])]])

-----------------------------------------------------------------------------
(* The plans, the oracle's answers and the environment the run starts from *)

Scheduling(period) ==
    [strategy |-> "TIMER_DRIVEN", period |-> period, concurrent_tasks |-> "1"]

Processor(id, type, properties, auto_terminated) ==
    [id |-> id, name |-> id, type |-> type, properties |-> properties,
     scheduling |-> Scheduling("1 sec"),
     auto_terminated_relationships |-> auto_terminated, mistyped |-> {}]

Connection(from_id, to_id, relationships) ==
    [from_id |-> from_id, to_id |-> to_id, relationships |-> relationships,
     mistyped |-> {}]

Details(processors, connections) ==
    [flow_name |-> "flow", processors |-> processors,
     connections |-> connections, mistyped |-> {}]

Plan(details) ==
    [plan_summary |-> "summary", plan_details |-> details, mistyped |-> {}]

\* the processors a plan is made of
ProcessorInputs(id) ==
    { Processor(id, <<"Run">>, [cs |-> "x", one |-> "x"], {}),
      Processor(id, <<"org", "a", "Run">>, [cs |-> "svc1"], {"failure"}),
      Processor(id, <<"a", "Put">>, [cs |-> "svc1", extra |-> "y"], {}),
      Processor(id, <<"Run">>, [cs |-> "svc1", extra |-> "y"], {"failure"}),
      Processor(id, <<"Get">>, [cs |-> "svc1"], {}),
      Processor(id, <<"Nope">>, [cs |-> "svc1"], {}),
      Processor(id, << >>, [cs |-> "svc1"], {}),
      Processor(id, <<"org", "a", "Run">>,
                [cs |-> "CREATE_NEW_CS", one |-> "CREATE_NEW_CS", extra |-> "y"],
                {}) }

ConnectionInputs ==
    { << >>, <<Connection("p1", "p2", {"success"})>> }

\* documents that are well formed as far as validate_structure looks
WellFormedPlans ==
    { Plan(Details(<<p1, p2>>, cs)) :
        p1 \in ProcessorInputs("p1"), p2 \in ProcessorInputs("p2"),
        cs \in ConnectionInputs }

\* documents with a structural defect, and the empty document {}
DefectivePlans ==
    LET ok == Processor("p1", <<"org", "a", "Run">>, [cs |-> "svc1"], {}) IN
    { [mistyped |-> {}],
      [plan_summary |-> "summary", mistyped |-> {}],
      [plan_details |-> Details(<<ok>>, << >>), mistyped |-> {"plan_details"}],
      Plan([flow_name |-> "flow", processors |-> <<ok>>, mistyped |-> {}]),
      Plan([Details(<<ok>>, << >>) EXCEPT !.mistyped = {"processors"}]),
      Plan(Details(<<[ok EXCEPT !.type = <<"5">>,
                                !.mistyped = {"properties", "type"}]>>, << >>)),
      [plan_details |-> Details(<<[id |-> "p1", name |-> "p1", mistyped |-> {}]>>,
                                <<[from_id |-> "p1", mistyped |-> {}]>>),
       mistyped |-> {}] }

\* documents whose fields are all there, with a connection that ends at no
\* processor of the plan
DanglingPlans ==
    LET ok(id) == Processor(id, <<"org", "a", "Run">>, [cs |-> "svc1"], {"failure"}) IN
    { Plan(Details(<<ok("p1"), ok("p2")>>, <<Connection("p1", "p9", {"success"})>>)) }

\* documents whose fields are all there, with two processors of one id
DuplicateIdPlans ==
    LET ok(id) == Processor(id, <<"org", "a", "Run">>, [cs |-> "svc1"], {"failure"}) IN
    { Plan(Details(<<ok("p1"), ok("p1")>>, << >>)) }

PlanInputs ==
    WellFormedPlans \cup DefectivePlans \cup DanglingPlans \cup DuplicateIdPlans

\* what is in plan.json: a document, no file, or text that is no JSON
Readable(doc) == [state |-> "ok", doc |-> doc]
NotFound == [state |-> "not_found", doc |-> Empty]
NotJson == [state |-> "not_json", doc |-> Empty]

\* answers of the structure oracle: a corrected plan_details
StructureFixes ==
    { Details(<<Processor("p1", <<"org", "a", "Run">>, [cs |-> "svc1"], {"failure"}),
               Processor("p2", <<"Get">>, [cs |-> "svc1"], {})>>, << >>),
      Details(<<Processor("p1", <<"org", "a", "Run">>, [cs |-> "svc1"], {"failure"}),
               Processor("p2", <<"a", "Put">>, [cs |-> "svc1", extra |-> "y"], {})>>,
              << >>) }

\* what a call of the structure oracle comes to: the call or json.loads
\* raises ("failed"), or the text is the JSON object doc: the corrected
\* plan_details, bare or under the key "plan_details"
StructureAnswers ==
    { [kind |-> "failed", doc |-> Empty] }
    \cup { [kind |-> "object", doc |-> d] : d \in StructureFixes }
    \cup { [kind |-> "object", doc |-> [plan_details |-> d]] : d \in StructureFixes }

\* answers of the config oracle that resolve_validation_errors_with_llm
\* returns as fixes
ConfigFixes ==
    { [properties |-> [cs |-> "x"]],
      [properties |-> [cs |-> "svc1"],
       auto_terminated_relationships |-> {"success", "failure"}] }

\* answers of the scheduling oracle that resolve_scheduling_errors_with_llm
\* returns as fixes
SchedulingFixes == { Scheduling("5 sec") }

\* what a call of the config oracle comes to: the call or json.loads raises
\* ("failed"), the text is JSON but no object ("not_object"), or it is the
\* object doc
ConfigAnswers ==
    { [kind |-> "failed", doc |-> Empty], [kind |-> "not_object", doc |-> Empty] }
    \cup { [kind |-> "object", doc |-> d] :
             d \in ConfigFixes
                \cup { [note |-> "nothing to change"],
                       [properties |-> Empty, auto_terminated_relationships |-> {}] } }

\* what a call of the scheduling oracle comes to: the call, json.loads or
\* fixes.get raises ("failed"), or the text is the JSON object doc
SchedulingAnswers ==
    { [kind |-> "failed", doc |-> Empty], [kind |-> "object", doc |-> Empty] }
    \cup { [kind |-> "object", doc |-> f] : f \in SchedulingFixes }
    \cup { [kind |-> "object", doc |-> [scheduling |-> f]] : f \in SchedulingFixes }

\* no creation response at hand.  status is the answer to the POST ("201",
\* "400 scheduling period", or "409" for any other rejection), version the
\* revision.version of a 201 answer.
NoProcData ==
    [id |-> <<0, 0>>, status |-> "none", version |-> 0, body |-> "none",
     validationErrors |-> << >>]

\* no delete request was issued yet
NoDeleteRequest == [id |-> <<0, 0>>, version |-> 0]

Init ==
    /\ disk \in {Readable(d) : d \in PlanInputs} \cup {NotFound, NotJson}
    /\ data = Empty
    /\ errors = << >>
    /\ changes_made = FALSE
    /\ available_processor_types = {}
    /\ gemini_api_key \in BOOLEAN
    /\ max_retries \in (0 - MinRetriesBound)..MaxRetriesBound
    /\ sandbox_pg_id \in BOOLEAN
    /\ pc = "loop"
    /\ connections_map = << >>
    /\ index = 0
    /\ retry_count = 0
    /\ proc_data = NoProcData
    /\ bound_locals = {}
    /\ filtered_errors = << >>
    /\ relationship_errors = << >>
    /\ live = {}
    /\ deleted = {}
    /\ delete_request = NoDeleteRequest
    /\ submitted = << >>
    /\ creates = << >>
    /\ oracle_calls = << >>
    /\ outcome = << >>
    /\ exit_status = "running"
    /\ builder_invoked = FALSE

-----------------------------------------------------------------------------
(* run(): the static pass and the prompt *)

sandbox_vars == <<connections_map, index, retry_count, proc_data, bound_locals,
                  filtered_errors, relationship_errors, live, deleted,
                  delete_request, submitted, creates, oracle_calls, outcome>>

config_vars == <<gemini_api_key, max_retries, sandbox_pg_id>>

\* an exception no handler catches ends the process with a traceback
Crash ==
    /\ pc' = "crashed"
    /\ exit_status' = "crash"

\* mutant: the exit status does not depend on the error list
PrintErrors_AlwaysSuccess(errs) ==
    /\ pc' = "exited"
    /\ exit_status' = "exit0"
    /\ builder_invoked' \in BOOLEAN

\* _print_errors() with the error list errs: exit(1) with errors, otherwise
\* the success panel, the builder if the operator says so, exit(0)
PrintErrors(errs) ==
    /\ pc' = "exited"
    /\ IF errs # << >>
       THEN exit_status' = "exit1" /\ UNCHANGED builder_invoked
       ELSE exit_status' = "exit0" /\ builder_invoked' \in BOOLEAN

\* save_plan(): json.dump of doc into plan.json; an IOError is reported in
\* self.errors and leaves the file as it was or cut short.
\* errs is self.errors before the call.
SavePlan(doc, errs) ==
    \/ disk' = Readable(doc) /\ errors' = errs
    \/ disk' \in {disk, NotJson} /\ errors' = Append(errs, Err("save_failed", 0, "IOError"))

\* mutant: the errors and the dirty flag of the previous iteration are kept
LoadPlan_KeepsErrors ==
    /\ pc = "loop"
    /\ IF disk.state = "ok"
       THEN /\ data' = disk.doc
            /\ pc' = "structure"
            /\ UNCHANGED <<errors, changes_made, exit_status, builder_invoked>>
       ELSE /\ errors' = <<Err("load_failed", 0, disk.state)>>
            /\ PrintErrors(errors')
            /\ UNCHANGED <<data, changes_made>>
    /\ UNCHANGED <<disk, available_processor_types, config_vars, sandbox_vars>>

\* top of the while loop: self.errors = [], load_plan(), self.changes_made = False
LoadPlan ==
    /\ pc = "loop"
    /\ IF disk.state = "ok"
       THEN /\ data' = disk.doc
            /\ errors' = << >>
            /\ changes_made' = FALSE
            /\ pc' = "structure"
            /\ UNCHANGED <<exit_status, builder_invoked>>
       ELSE /\ errors' = <<Err("load_failed", 0, disk.state)>>
            /\ PrintErrors(errors')
            /\ UNCHANGED <<data, changes_made>>
    /\ UNCHANGED <<disk, available_processor_types, config_vars, sandbox_vars>>

\* mutant: a missing plan_summary is filled in while checking
ValidateStructure_FillsSummary ==
    /\ pc = "structure"
    /\ errors' = errors \o StructureErrors(data)
    /\ data' = IF IsFalsy(data) \/ Has(data, "plan_summary") THEN data
               ELSE Put(data, "plan_summary", "summary")
    /\ pc' = "types"
    /\ UNCHANGED <<disk, changes_made, available_processor_types,
                   config_vars, sandbox_vars, exit_status, builder_invoked>>

ValidateStructure ==
    /\ pc = "structure"
    /\ errors' = errors \o StructureErrors(data)
    /\ pc' = "types"
    /\ UNCHANGED <<disk, data, changes_made, available_processor_types,
                   config_vars, sandbox_vars, exit_status, builder_invoked>>

\* validate_processor_types, with fetch_nifi_processor_types when the
\* catalog is not cached yet
ValidateProcessorTypes ==
    /\ pc = "types"
    /\ UNCHANGED <<disk, config_vars, sandbox_vars, builder_invoked>>
    /\ IF NoProcessors(data)
       THEN /\ pc' = "services"
            /\ UNCHANGED <<data, errors, changes_made, available_processor_types,
                           exit_status>>
       ELSE
         \/ \* the fetch fails: the error is recorded and the pass returns
            /\ available_processor_types = {}
            /\ errors' = Append(errors, Err("fetch_failed", 0, "RequestException"))
            /\ pc' = "services"
            /\ UNCHANGED <<data, changes_made, available_processor_types,
                           exit_status>>
         \/ \* the catalog is there (cached, or fetched now)
            /\ available_processor_types' = Catalog
            /\ IF ~IsInstance(data.plan_details, "processors")
               THEN \* the loop body calls processor.get on what is no object
                    /\ Crash
                    /\ UNCHANGED <<data, errors, changes_made>>
               ELSE LET r == ResolveTypes(Catalog, data.plan_details.processors) IN
                    /\ data' = [data EXCEPT !.plan_details.processors = r.processors]
                    /\ errors' = errors \o r.errs
                    /\ changes_made' = r.changed
                    /\ pc' = "services"
                    /\ UNCHANGED exit_status

ValidateControllerServices ==
    /\ pc = "services"
    /\ UNCHANGED <<disk, data, changes_made, available_processor_types,
                   config_vars, sandbox_vars, builder_invoked>>
    /\ IF NoProcessors(data)
       THEN pc' = "checked" /\ UNCHANGED <<errors, exit_status>>
       ELSE IF \/ ~IsInstance(data.plan_details, "processors")
               \/ \E i \in 1..Len(data.plan_details.processors) :
                     LET processor == data.plan_details.processors[i] IN
                     Has(processor, "properties") /\ ~IsInstance(processor, "properties")
       THEN \* processor.get / properties.items() on what is no object
            Crash /\ UNCHANGED errors
       ELSE /\ errors' = errors \o ControllerServiceErrors(data.plan_details.processors)
            /\ pc' = "checked"
            /\ UNCHANGED exit_status

\* mutant: only the errors of validate_structure keep the run at the prompt
InitialChecksPass_StructureOnly(errs) ==
    \A j \in 1..Len(errs) : errs[j].kind \notin {"missing_field", "wrong_type"}

\* `if not self.errors: break`
InitialChecksPass(errs) == errs = << >>

InitialChecksPassed ==
    /\ pc = "checked"
    /\ InitialChecksPass(errors)
    /\ pc' = "sandbox"
    /\ UNCHANGED <<disk, data, errors, changes_made, available_processor_types,
                   config_vars, sandbox_vars, exit_status, builder_invoked>>

\* choice "Retry initial validation"
RetryInitialValidation ==
    /\ pc = "checked"
    /\ ~InitialChecksPass(errors)
    /\ pc' = "loop"
    /\ UNCHANGED <<disk, data, errors, changes_made, available_processor_types,
                   config_vars, sandbox_vars, exit_status, builder_invoked>>

\* fixed_details: the answer, or what it holds under "plan_details"
StructureFixOf(answer) ==
    IF Has(answer.doc, "plan_details") THEN answer.doc.plan_details ELSE answer.doc

\* mutant: the corrected plan is not written to plan.json
FixThePlanUsingLLM_NotSaved ==
    /\ pc = "checked"
    /\ ~InitialChecksPass(errors)
    /\ pc' = "loop"
    /\ UNCHANGED <<config_vars, sandbox_vars, exit_status, builder_invoked>>
    /\ IF ~gemini_api_key
       THEN UNCHANGED <<disk, data, errors, changes_made, available_processor_types>>
       ELSE
         \* the catalog is fetched for the prompt when it is not cached; a
         \* failing fetch appends to self.errors
         \E fetched \in BOOLEAN :
           LET errs == IF available_processor_types = {} /\ ~fetched
                       THEN Append(errors, Err("fetch_failed", 0, "RequestException"))
                       ELSE errors IN
           /\ available_processor_types' =
                 IF fetched THEN Catalog ELSE available_processor_types
           /\ \E answer \in StructureAnswers :
                 IF answer.kind # "object"
                 THEN \* the call fails or its answer is no JSON
                      /\ errors' = errs
                      /\ UNCHANGED <<disk, data, changes_made>>
                 ELSE /\ data' = [Put(data, "plan_details", StructureFixOf(answer))
                                     EXCEPT !.mistyped = @ \ {"plan_details"}]
                      /\ changes_made' = TRUE
                      /\ errors' = errs
                      /\ UNCHANGED disk

\* choice "Fix the plan using LLM": resolve_structure_errors_with_llm, then
\* save_plan when it returned True; the loop continues either way
FixThePlanUsingLLM ==
    /\ pc = "checked"
    /\ ~InitialChecksPass(errors)
    /\ pc' = "loop"
    /\ UNCHANGED <<config_vars, sandbox_vars, exit_status, builder_invoked>>
    /\ IF ~gemini_api_key
       THEN UNCHANGED <<disk, data, errors, changes_made, available_processor_types>>
       ELSE
         \* the catalog is fetched for the prompt when it is not cached; a
         \* failing fetch appends to self.errors
         \E fetched \in BOOLEAN :
           LET errs == IF available_processor_types = {} /\ ~fetched
                       THEN Append(errors, Err("fetch_failed", 0, "RequestException"))
                       ELSE errors IN
           /\ available_processor_types' =
                 IF fetched THEN Catalog ELSE available_processor_types
           /\ \E answer \in StructureAnswers :
                 IF answer.kind # "object"
                 THEN \* the call fails or its answer is no JSON
                      /\ errors' = errs
                      /\ UNCHANGED <<disk, data, changes_made>>
                 ELSE /\ data' = [Put(data, "plan_details", StructureFixOf(answer))
                                     EXCEPT !.mistyped = @ \ {"plan_details"}]
                      /\ changes_made' = TRUE
                      /\ SavePlan(data', errs)

\* choice "Exit"
ExitChoice ==
    /\ pc = "checked"
    /\ ~InitialChecksPass(errors)
    /\ pc' = "exited"
    /\ exit_status' = "exit1"
    /\ UNCHANGED <<disk, data, errors, changes_made, available_processor_types,
                   config_vars, sandbox_vars, builder_invoked>>

-----------------------------------------------------------------------------
(* validate_processor_configuration: the sandbox pass *)

static_vars == <<disk, available_processor_types>>

Processors == data.plan_details.processors

\* mutant: the map has the keys, but the relationships are not collected
ConnectionsMap_KeysOnly(details) ==
    IF ~Has(details, "connections") THEN << >>
    ELSE LET conns == details.connections
             srcs == {conns[j].from_id : j \in {k \in 1..Len(conns) :
                          Has(conns[k], "from_id") /\ conns[k].from_id # ""}}
         IN [src \in srcs |-> {}]

\* connections_map: from_id -> union of the relationships of its connections
ConnectionsMap(details) ==
    IF ~Has(details, "connections") THEN << >>
    ELSE LET conns == details.connections
             srcs == {conns[j].from_id : j \in {k \in 1..Len(conns) :
                          Has(conns[k], "from_id") /\ conns[k].from_id # ""}}
         IN [src \in srcs |->
               UNION {Get(conns[j], "relationships", {}) :
                        j \in {k \in 1..Len(conns) :
                                 Has(conns[k], "from_id") /\ conns[k].from_id = src}}]

\* mutant: the attempt budget does not look at the oracle being configured
MaxAttempts_IgnoresKey == max_retries + 1

\* max_attempts = self.max_retries + 1 if self.gemini_api_key else 1
MaxAttempts == IF gemini_api_key THEN max_retries + 1 ELSE 1

\* mutant: the budget test is off by one
MayAskOracle_OffByOne == retry_count < max_retries - 1 /\ gemini_api_key

\* retry_count < self.max_retries and self.gemini_api_key
MayAskOracle == retry_count < max_retries /\ gemini_api_key

\* mutant: any rejection goes to the scheduling oracle while budget is left
AsksSchedulingOracle_AnyRejection(scheduling_period) == MayAskOracle

\* a rejection goes to the scheduling oracle: status 400, "scheduling period"
\* in the text, budget left and an oracle configured
AsksSchedulingOracle(scheduling_period) == scheduling_period /\ MayAskOracle

\* mutant: after a transport error the loop stays with the processor
Advance_RetriesTransport(i, how) ==
    /\ outcome' = IF how = "api_error" THEN outcome
                  ELSE [outcome EXCEPT ![i] = how]
    /\ index' = IF how = "api_error" THEN i ELSE i + 1
    /\ retry_count' = 0
    /\ proc_data' = NoProcData
    /\ filtered_errors' = << >>
    /\ relationship_errors' = << >>
    /\ pc' = IF how = "api_error" THEN "attempt"
             ELSE IF i + 1 > Len(Processors) THEN "finish" ELSE "attempt"

\* leaving the while loop of processor i, its validation having ended as
\* `how` says: the for loop takes the next processor
Advance(i, how) ==
    /\ outcome' = [outcome EXCEPT ![i] = how]
    /\ index' = i + 1
    /\ retry_count' = 0
    /\ proc_data' = NoProcData
    /\ filtered_errors' = << >>
    /\ relationship_errors' = << >>
    /\ pc' = IF i + 1 > Len(Processors) THEN "finish" ELSE "attempt"

\* mutant: the create request is built from the plan as it was loaded
Payload_FromDisk(p) ==
    LET q == disk.doc.plan_details.processors[index] IN
    [properties |-> q.properties, scheduling |-> q.scheduling]

\* the config of the create request for processor p: clean_properties (the
\* properties whose value is a string; all values of the plans here are) and
\* the scheduling, both read from self.data at the top of the attempt
Payload(p) == [properties |-> p.properties, scheduling |-> p.scheduling]

\* no create request made yet
NoPayload == [properties |-> Empty, scheduling |-> Empty]

\* the head of the function, up to the for loop
BeginSandbox ==
    /\ pc = "sandbox"
    /\ UNCHANGED <<static_vars, data, changes_made, config_vars, retry_count,
                   proc_data, bound_locals, filtered_errors, relationship_errors,
                   live, deleted, delete_request, exit_status, builder_invoked>>
    /\ IF ~sandbox_pg_id
       THEN /\ errors' = Append(errors, Err("no_sandbox_pg", 0, "not set"))
            /\ pc' = "finish"
            /\ UNCHANGED <<connections_map, index, submitted, creates, oracle_calls,
                           outcome>>
       ELSE IF NoProcessors(data)
       THEN /\ pc' = "finish"
            /\ UNCHANGED <<errors, connections_map, index, submitted, creates,
                           oracle_calls, outcome>>
       ELSE /\ connections_map' = ConnectionsMap(data.plan_details)
            /\ index' = 1
            /\ submitted' = [i \in 1..Len(Processors) |-> NoPayload]
            /\ creates' = [i \in 1..Len(Processors) |-> 0]
            /\ oracle_calls' = [i \in 1..Len(Processors) |-> 0]
            /\ outcome' = [i \in 1..Len(Processors) |-> "pending"]
            /\ pc' = IF Len(Processors) = 0 THEN "finish" ELSE "attempt"
            /\ UNCHANGED errors

\* `while retry_count < max_attempts` is false on entry: no attempt is made
SkipProcessor ==
    /\ pc = "attempt"
    /\ ~(retry_count < MaxAttempts)
    /\ Advance(index, "not_attempted")
    /\ UNCHANGED <<static_vars, data, errors, changes_made, config_vars,
                   connections_map, bound_locals, live, deleted, delete_request,
                   submitted, creates,
                   oracle_calls, exit_status, builder_invoked>>

\* one iteration of the while loop up to the answer to the POST
CreateProcessor ==
    /\ pc = "attempt"
    /\ retry_count < MaxAttempts
    /\ creates' = [creates EXCEPT ![index] = @ + 1]
    /\ submitted' = [submitted EXCEPT ![index] = Payload(Processors[index])]
    /\ UNCHANGED <<static_vars, data, changes_made, config_vars, connections_map,
                   bound_locals, deleted, delete_request, oracle_calls, exit_status,
                   builder_invoked>>
    /\ \/ \* requests.post raises a RequestException
          /\ errors' = Append(errors, Err("api_error", index, "RequestException"))
          /\ Advance(index, "api_error")
          /\ UNCHANGED live
       \/ \* rejected: any status but 201; a 400 naming the scheduling period
          \* goes to the scheduling oracle while MayAskOracle
          \E scheduling_period \in BOOLEAN :
             LET status == IF scheduling_period THEN "400 scheduling period"
                                                ELSE "409" IN
             IF AsksSchedulingOracle(scheduling_period)
             THEN /\ pc' = "scheduling_oracle"
                  /\ proc_data' = [NoProcData EXCEPT !.status = status]
                  /\ UNCHANGED <<errors, index, retry_count, filtered_errors,
                                 relationship_errors, live, outcome>>
             ELSE /\ errors' = Append(errors, Err("create_failed", index, status))
                  /\ Advance(index, "rejected")
                  /\ UNCHANGED live
       \/ \* 201: the runtime created an instance of a type it knows
          /\ Processors[index].type \in Catalog
          /\ \E body \in {"json", "not_json"}, ve \in ValidationErrorSets :
               /\ body = "not_json" => ve = << >>
               /\ proc_data' = [id |-> <<index, creates'[index]>>,
                                status |-> "201", version |-> creates'[index],
                                body |-> body, validationErrors |-> ve]
          /\ live' = live \cup {proc_data'.id}
          /\ pc' = "inspect"
          /\ UNCHANGED <<errors, index, retry_count, filtered_errors,
                         relationship_errors, outcome>>

\* mutant: every property with a single allowable value is rewritten
AutoCorrects_AnySingleChoice(descriptor) ==
    Cardinality(descriptor.allowableValues) = 1

\* the descriptors the auto-correction rewrites: those that identify a
\* controller service and allow exactly one value
AutoCorrects(descriptor) ==
    /\ descriptor.identifiesControllerService
    /\ Cardinality(descriptor.allowableValues) = 1

\* mutant: the single value is only filled in where the property is absent
AutoCorrected_OnlyAbsent(properties, descriptors) ==
    LET single == {k \in DOMAIN descriptors : AutoCorrects(descriptors[k])} IN
    [k \in DOMAIN properties \cup single |->
        IF k \in DOMAIN properties
        THEN properties[k]
        ELSE CHOOSE v \in descriptors[k].allowableValues : TRUE]

\* the properties after the auto-correction loop over the descriptors
AutoCorrected(properties, descriptors) ==
    LET single == {k \in DOMAIN descriptors : AutoCorrects(descriptors[k])} IN
    [k \in DOMAIN properties \cup single |->
        IF k \in single
        THEN CHOOSE v \in descriptors[k].allowableValues : TRUE
        ELSE properties[k]]

\* the "Cleanup Dynamic Properties" block raises UnboundLocalError when it
\* reads current_props_dict (bound only inside the `if`) or appends to
\* filtered_errors (bound only further down) before they were ever bound.
\* Once bound they keep the value of an earlier attempt, and what the block
\* appends then is dropped by `filtered_errors = []`.
CleanupRaises(type, properties) ==
    IF SupportsDynamicProperties(type)
    THEN "current_props_dict" \notin bound_locals
    ELSE /\ "filtered_errors" \notin bound_locals
         /\ \E prop_key \in DOMAIN properties :
               prop_key \notin DOMAIN Descriptors(type)

\* filtered_errors: validationErrors without the 'Relationship and
\* 'Upstream Connections diagnostics
\* mutant: only the 'Relationship diagnostics are left out
IsSurfaced_KeepsUpstream(error) == error # "rel"

IsSurfaced(error) == error \notin {"rel", "up"}

FilteredErrors(validation_errors) == SelectSeq(validation_errors, IsSurfaced)

\* mutant: the connections leaving the processor are not looked at
RelationshipErrors_IgnoresConnections(p, type) ==
    IF p.id \in DOMAIN connections_map
    THEN LET unaccounted == Relationships(type) \ p.auto_terminated_relationships
         IN IF unaccounted # {} THEN <<unaccounted>> ELSE << >>
    ELSE << >>

\* mutant: the check is made for every processor, source or not
RelationshipErrors_AllProcessors(p, type) ==
    LET connected == IF p.id \in DOMAIN connections_map
                     THEN connections_map[p.id] ELSE {}
        unaccounted == Relationships(type) \
            (p.auto_terminated_relationships \cup connected)
    IN IF unaccounted # {} THEN <<unaccounted>> ELSE << >>

\* relationship_errors of processor p of the given type
RelationshipErrors(p, type) ==
    IF p.id \in DOMAIN connections_map
    THEN LET unaccounted == Relationships(type) \
                 (p.auto_terminated_relationships \cup connections_map[p.id])
         IN IF unaccounted # {} THEN <<unaccounted>> ELSE << >>
    ELSE << >>

\* all_errors_found
AllErrorsFound(i, fe, re) ==
    [j \in 1..Len(fe) |-> Err("config", i, fe[j])]
    \o [j \in 1..Len(re) |-> Err("relationship", i, re[j])]

\* from response.json() to the computation of all_errors_found
Inspect ==
    /\ pc = "inspect"
    /\ UNCHANGED <<static_vars, config_vars, connections_map, live, deleted,
                   delete_request, submitted,
                   creates, oracle_calls, builder_invoked>>
    /\ IF proc_data.body = "not_json"
       THEN \* response.json() raises: requests' JSONDecodeError, which is a
            \* RequestException caught by the handler of the attempt, or
            \* (requests before 2.27) a plain ValueError, which nothing catches
            /\ UNCHANGED <<data, changes_made, bound_locals>>
            /\ \/ /\ errors' = Append(errors, Err("api_error", index,
                                                  "JSONDecodeError"))
                  /\ Advance(index, "bad_response")
                  /\ UNCHANGED exit_status
               \/ /\ Crash
                  /\ UNCHANGED <<errors, index, retry_count, proc_data,
                                 filtered_errors, relationship_errors, outcome>>
       ELSE
         LET p == Processors[index]
             corrected == AutoCorrected(p.properties, Descriptors(p.type))
         IN
         /\ data' = [data EXCEPT !.plan_details.processors[index].properties = corrected]
         /\ changes_made' = (changes_made \/ corrected # p.properties)
         /\ UNCHANGED <<errors, index, retry_count, proc_data, outcome>>
         /\ IF CleanupRaises(p.type, corrected)
            THEN /\ Crash
                 /\ UNCHANGED <<bound_locals, filtered_errors, relationship_errors>>
            ELSE /\ bound_locals' = {"valid_descriptors", "current_props_dict",
                                     "filtered_errors"}
                 /\ filtered_errors' = FilteredErrors(proc_data.validationErrors)
                 /\ relationship_errors' = RelationshipErrors(p, p.type)
                 /\ pc' = "delete"
                 /\ UNCHANGED exit_status

\* mutant: the delete carries the revision of the create request
DeleteRequest_RequestRevision(pd) == [id |-> pd.id, version |-> 0]

\* delete_url and delete_params: the id and the revision version of the
\* creation response at hand
DeleteRequest(pd) == [id |-> pd.id, version |-> pd.version]

\* requests.delete, then the decision on all_errors_found.  The delete is
\* issued; what it answers or raises is ignored, so the runtime may or may
\* not have removed the instance.
DeleteProcessor ==
    /\ pc = "delete"
    /\ \E removed \in BOOLEAN :
          live' = IF removed THEN live \ {proc_data.id} ELSE live
    /\ deleted' = deleted \cup {proc_data.id}
    /\ delete_request' = DeleteRequest(proc_data)
    /\ UNCHANGED <<static_vars, data, changes_made, config_vars, connections_map,
                   bound_locals, submitted, creates, oracle_calls, exit_status, builder_invoked>>
    /\ LET all_errors_found == AllErrorsFound(index, filtered_errors, relationship_errors) IN
       IF all_errors_found = << >>
       THEN Advance(index, "clean") /\ UNCHANGED errors
       ELSE IF MayAskOracle
       THEN /\ pc' = "config_oracle"
            /\ UNCHANGED <<errors, index, retry_count, proc_data, filtered_errors,
                           relationship_errors, outcome>>
       ELSE /\ errors' = errors \o all_errors_found
            /\ Advance(index, "exhausted")

\* mutant: the properties of the fix are merged into those of the processor
ApplyConfigFix_MergesProperties(p, fixes) ==
    [p EXCEPT
       !.properties =
           IF Has(fixes, "properties")
           THEN [k \in DOMAIN @ \cup DOMAIN fixes.properties |->
                    IF k \in DOMAIN fixes.properties
                    THEN fixes.properties[k] ELSE @[k]]
           ELSE @,
       !.auto_terminated_relationships =
           IF Has(fixes, "auto_terminated_relationships")
           THEN fixes.auto_terminated_relationships ELSE @]

\* the fixes applied to processor p
ApplyConfigFix(p, fixes) ==
    [p EXCEPT
       !.properties = IF Has(fixes, "properties") THEN fixes.properties ELSE @,
       !.auto_terminated_relationships =
           IF Has(fixes, "auto_terminated_relationships")
           THEN fixes.auto_terminated_relationships ELSE @]

\* what resolve_validation_errors_with_llm returns for an answer, and
\* whether the caller's `if fixes:` takes it
NoFix == [ok |-> FALSE, fixes |-> Empty]

\* mutant: any object is taken as fixes
ConfigFixesOf_AnyObject(answer) ==
    IF answer.kind # "object" THEN NoFix
    ELSE [ok |-> TRUE, fixes |-> answer.doc]

ConfigFixesOf(answer) ==
    IF answer.kind # "object" THEN NoFix
    ELSE LET properties_to_update ==
                 Has(answer.doc, "properties") /\ answer.doc.properties # Empty
             relationships_to_update ==
                 /\ Has(answer.doc, "auto_terminated_relationships")
                 /\ answer.doc.auto_terminated_relationships # {}
         IN IF ~properties_to_update /\ ~relationships_to_update
            THEN NoFix
            ELSE [ok |-> TRUE, fixes |-> answer.doc]

\* what resolve_scheduling_errors_with_llm returns for an answer:
\* fixes.get("scheduling", fixes), taken by the caller if it is not empty
SchedulingFixesOf(answer) ==
    IF answer.kind # "object" THEN NoFix
    ELSE LET fixes == Get(answer.doc, "scheduling", answer.doc) IN
         IF fixes = Empty THEN NoFix ELSE [ok |-> TRUE, fixes |-> fixes]

\* mutant: the fix replaces the scheduling and empties the auto-terminated set
ApplySchedulingFix_AlsoRelationships(p, fixes) ==
    [p EXCEPT !.scheduling = fixes, !.auto_terminated_relationships = {}]

\* self.data["plan_details"]["processors"][index]["scheduling"] = fixes
ApplySchedulingFix(p, fixes) == [p EXCEPT !.scheduling = fixes]

\* resolve_validation_errors_with_llm and what the loop does with its answer
ResolveValidationErrors ==
    /\ pc = "config_oracle"
    /\ oracle_calls' = [oracle_calls EXCEPT ![index] = @ + 1]
    /\ UNCHANGED <<static_vars, config_vars, connections_map, bound_locals, live,
                   deleted, delete_request, submitted, creates, exit_status,
                   builder_invoked>>
    /\ \E answer \in ConfigAnswers :
          LET r == ConfigFixesOf(answer) IN
          IF ~r.ok
          THEN \* no fix: the errors of the attempt are recorded
               /\ errors' = errors \o AllErrorsFound(index, filtered_errors,
                                                     relationship_errors)
               /\ Advance(index, "no_fix")
               /\ UNCHANGED <<data, changes_made>>
          ELSE /\ data' = [data EXCEPT !.plan_details.processors[index] =
                                           ApplyConfigFix(@, r.fixes)]
               /\ changes_made' = TRUE
               /\ retry_count' = retry_count + 1
               /\ pc' = "attempt"
               /\ proc_data' = NoProcData
               /\ filtered_errors' = << >>
               /\ relationship_errors' = << >>
               /\ UNCHANGED <<errors, index, outcome>>

\* mutant: a scheduling repair does not use up an attempt
ResolveSchedulingErrors_NotCounted ==
    /\ pc = "scheduling_oracle"
    /\ oracle_calls' = [oracle_calls EXCEPT ![index] = @ + 1]
    /\ UNCHANGED <<static_vars, config_vars, connections_map, bound_locals, live,
                   deleted, delete_request, submitted, creates, exit_status,
                   builder_invoked>>
    /\ \E answer \in SchedulingAnswers :
          LET r == SchedulingFixesOf(answer) IN
          IF ~r.ok
          THEN \* no fix: the rejection is recorded
               /\ errors' = Append(errors, Err("create_failed", index,
                                               proc_data.status))
               /\ Advance(index, "rejected")
               /\ UNCHANGED <<data, changes_made>>
          ELSE /\ data' = [data EXCEPT !.plan_details.processors[index] =
                                           ApplySchedulingFix(@, r.fixes)]
               /\ changes_made' = TRUE
               /\ retry_count' = retry_count
               /\ pc' = "attempt"
               /\ proc_data' = NoProcData
               /\ UNCHANGED <<errors, index, filtered_errors,
                              relationship_errors, outcome>>

\* resolve_scheduling_errors_with_llm and what the loop does with its answer
ResolveSchedulingErrors ==
    /\ pc = "scheduling_oracle"
    /\ oracle_calls' = [oracle_calls EXCEPT ![index] = @ + 1]
    /\ UNCHANGED <<static_vars, config_vars, connections_map, bound_locals, live,
                   deleted, delete_request, submitted, creates, exit_status,
                   builder_invoked>>
    /\ \E answer \in SchedulingAnswers :
          LET r == SchedulingFixesOf(answer) IN
          IF ~r.ok
          THEN \* no fix: the rejection is recorded
               /\ errors' = Append(errors, Err("create_failed", index,
                                               proc_data.status))
               /\ Advance(index, "rejected")
               /\ UNCHANGED <<data, changes_made>>
          ELSE /\ data' = [data EXCEPT !.plan_details.processors[index] =
                                           ApplySchedulingFix(@, r.fixes)]
               /\ changes_made' = TRUE
               /\ retry_count' = retry_count + 1
               /\ pc' = "attempt"
               /\ proc_data' = NoProcData
               /\ UNCHANGED <<errors, index, filtered_errors,
                              relationship_errors, outcome>>

\* the end of run(): save_plan() if self.changes_made, then _print_errors()
Finish ==
    /\ pc = "finish"
    /\ IF changes_made
       THEN SavePlan(data, errors)
       ELSE UNCHANGED <<disk, errors>>
    /\ PrintErrors(errors')
    /\ UNCHANGED <<data, changes_made, available_processor_types, config_vars,
                   sandbox_vars>>

-----------------------------------------------------------------------------

Next ==
    \/ LoadPlan
    \/ ValidateStructure
    \/ ValidateProcessorTypes
    \/ ValidateControllerServices
    \/ InitialChecksPassed
    \/ RetryInitialValidation
    \/ FixThePlanUsingLLM
    \/ ExitChoice
    \/ BeginSandbox
    \/ SkipProcessor
    \/ CreateProcessor
    \/ Inspect
    \/ DeleteProcessor
    \/ ResolveValidationErrors
    \/ ResolveSchedulingErrors
    \/ Finish

Spec == Init /\ [][Next]_vars

\* the program runs in one thread: the step it is at is taken as long as the
\* call it waits for returns (the requests have timeouts)
FairSpec == Spec /\ WF_vars(Next)

-----------------------------------------------------------------------------
(* Properties *)

SandboxPcs == {"attempt", "inspect", "delete", "config_oracle", "scheduling_oracle"}

\* the sandbox pass is over: it returned, the process exited, or it died
PassOver == pc \in {"finish", "exited", "crashed"}

\* the validation of processor i ended with an attempt that was inspected
EndedInspected(i) == outcome[i] \in {"clean", "exhausted", "no_fix"}

\* C1: once the sandbox pass has stopped, for whatever reason, every sandbox
\* instance created during the run has had a delete issued for it.
C1_NoInstanceLeftBehind == PassOver => live \subseteq deleted

\* C2: at every moment at most one sandbox instance exists without a delete
\* issued for it.
C2_AtMostOneInstance == Cardinality(live \ deleted) <= 1

\* C3 as claimed: with an oracle configured, a processor whose errors are
\* recorded after an inspection has had exactly max_retries + 1 create
\* requests, whatever the oracle answered.
C3_ExactlyMaxRetriesPlusOne ==
    gemini_api_key =>
      \A i \in DOMAIN outcome :
         outcome[i] \in {"exhausted", "no_fix"} => creates[i] = max_retries + 1

\* C3 amended: with an oracle configured, no processor gets more than
\* max_retries + 1 create requests; a processor whose errors are recorded
\* because the budget is used up has had exactly max_retries + 1 create
\* requests and max_retries oracle calls, each answered with a fix; one whose
\* errors are recorded because the oracle had no fix has had as many create
\* requests as oracle calls, at most max_retries.
C3_BudgetExactWhenOracleFixes ==
    gemini_api_key =>
      \A i \in DOMAIN outcome :
         /\ creates[i] <= (IF max_retries + 1 > 0 THEN max_retries + 1 ELSE 0)
         /\ outcome[i] = "exhausted" =>
               creates[i] = max_retries + 1 /\ oracle_calls[i] = max_retries
         /\ outcome[i] = "no_fix" =>
               creates[i] = oracle_calls[i] /\ creates[i] <= max_retries

C3_Witness ==
    /\ gemini_api_key
    /\ max_retries = MaxRetriesBound
    /\ \E i \in DOMAIN outcome :
          outcome[i] = "exhausted" /\ creates[i] = MaxRetriesBound + 1

\* C4: without an oracle, whatever max_retries is, no oracle call is made,
\* no processor gets a second create request, and every processor whose
\* validation has ended got exactly one.
C4_SingleAttemptWithoutOracle ==
    ~gemini_api_key =>
      /\ pc \notin {"config_oracle", "scheduling_oracle"}
      /\ \A i \in DOMAIN outcome :
            /\ oracle_calls[i] = 0
            /\ creates[i] <= 1
            /\ outcome[i] # "pending" => creates[i] = 1

C4_Witness ==
    /\ ~gemini_api_key
    /\ max_retries = MaxRetriesBound
    /\ pc = "finish"
    /\ outcome # << >>
    /\ \E i \in DOMAIN outcome : outcome[i] = "exhausted"
    /\ \A i \in DOMAIN outcome : creates[i] = 1

\* a sandbox instance of processor i was created during the pass
Created(i) == \E id \in live \cup deleted : id[1] = i

\* C5 as claimed: when validation has ended, every property whose descriptor
\* allows exactly one value has that value in the plan, for every processor
\* that was created in the sandbox.
C5_EverySingleChoiceProperty ==
    (pc \in {"finish", "exited"} /\ outcome # << >>) =>
      \A i \in DOMAIN outcome :
         Created(i) =>
           LET p == Processors[i]
               descriptors == Descriptors(p.type) IN
           \A k \in DOMAIN descriptors :
              Cardinality(descriptors[k].allowableValues) = 1 =>
                 /\ Has(p.properties, k)
                 /\ p.properties[k] \in descriptors[k].allowableValues

\* C5 amended: for every property whose descriptor identifies a controller
\* service and allows exactly one value, the plan holds that value from the
\* inspection of each created instance of the processor on, so also when the
\* validation of the processor ended with an inspected attempt, whatever the
\* input value and whatever the oracle set before that attempt.
C5_ControllerServiceSingleChoice ==
    \A i \in DOMAIN outcome :
       (EndedInspected(i) \/ (index = i /\ pc \in {"delete", "config_oracle"})) =>
         LET p == Processors[i]
             descriptors == Descriptors(p.type) IN
         \A k \in DOMAIN descriptors :
            (/\ descriptors[k].identifiesControllerService
             /\ Cardinality(descriptors[k].allowableValues) = 1) =>
               /\ Has(p.properties, k)
               /\ p.properties[k] \in descriptors[k].allowableValues

\* the input value was wrong, the oracle was asked in between, and the last
\* attempt corrected the value again
C5_Witness ==
    /\ pc = "finish"
    /\ outcome # << >>
    /\ outcome[1] = "exhausted"
    /\ oracle_calls[1] >= 1
    /\ disk.doc.plan_details.processors[1].properties.cs = "x"
    /\ Processors[1].properties.cs = "svc1"

\* the plan in memory has two processors, each with a type
TwoTypedProcessors ==
    /\ ~NoProcessors(data)
    /\ IsInstance(data.plan_details, "processors")
    /\ Len(Processors) = 2
    /\ \A i \in 1..2 : Has(Processors[i], "type")

\* the step in which the loop of validate_processor_types ran
TypesResolved ==
    /\ pc = "types"
    /\ pc' = "services"
    /\ available_processor_types' # {}
    /\ ~NoProcessors(data)

\* the catalog identifiers that end with "." + p_type
Suffixing(p_type) == {fqcn \in Catalog : EndsWithDot(fqcn, p_type)}

TypeErrorsOf(errs, i) ==
    ErrorsOf(errs, "type_ambiguous", i) \cup ErrorsOf(errs, "type_not_found", i)

\* C6: a type that is no catalog identifier and that exactly one catalog
\* identifier ends with "." + is rewritten to that identifier, no error is
\* recorded for it, and the plan is dirty when the pass ends.
C6_UniqueCandidateRewritten ==
    [][TypesResolved =>
         \A i \in 1..Len(Processors) :
            LET p == Processors[i] IN
            (/\ Has(p, "type")
             /\ p.type \notin Catalog
             /\ Cardinality(Suffixing(p.type)) = 1) =>
               /\ Processors'[i].type \in Suffixing(p.type)
               /\ TypeErrorsOf(errors', i) = {}
               /\ changes_made']_vars

C6_Witness ==
    /\ pc = "services"
    /\ TwoTypedProcessors
    /\ changes_made
    /\ disk.doc.plan_details.processors[1].type = <<"Run">>
    /\ Processors[1].type = <<"org", "a", "Run">>
    /\ TypeErrorsOf(errors, 1) = {}

\* C7: a type that several catalog identifiers end with "." + (and none
\* equals) gets exactly one "ambiguous" error naming all of them, and the
\* processor is left as it was.
C7_AmbiguousTypeReported ==
    [][TypesResolved =>
         \A i \in 1..Len(Processors) :
            LET p == Processors[i] IN
            (/\ Has(p, "type")
             /\ p.type \notin Catalog
             /\ Cardinality(Suffixing(p.type)) > 1) =>
               /\ Cardinality(ErrorsOf(errors', "type_ambiguous", i)) = 1
               /\ \A j \in ErrorsOf(errors', "type_ambiguous", i) :
                     errors'[j].detail = Suffixing(p.type)
               /\ ErrorsOf(errors', "type_not_found", i) = {}
               /\ Processors'[i] = p]_vars

C7_Witness ==
    /\ pc = "services"
    /\ TwoTypedProcessors
    /\ Processors[2].type = <<"Get">>
    /\ \E j \in 1..Len(errors) :
          /\ errors[j].kind = "type_ambiguous"
          /\ errors[j].index = 2
          /\ errors[j].detail = {<<"org", "a", "Get">>, <<"org", "b", "Get">>}

\* C8: a type that no catalog identifier equals or ends with "." + gets
\* exactly one "does not exist" error and is left as it was.
C8_UnknownTypeReported ==
    [][TypesResolved =>
         \A i \in 1..Len(Processors) :
            LET p == Processors[i] IN
            (/\ Has(p, "type")
             /\ p.type \notin Catalog
             /\ Suffixing(p.type) = {}) =>
               /\ Cardinality(ErrorsOf(errors', "type_not_found", i)) = 1
               /\ Processors'[i] = p]_vars

\* C9: a type that is a catalog identifier is left as it was, with no error,
\* also when other identifiers end with "." + it; the plan is marked dirty
\* only if a type changed; and the resolver applied to its own output changes
\* nothing and reports no change.
C9_ResolverIdempotent ==
    [][TypesResolved =>
         /\ \A i \in 1..Len(Processors) :
               (Has(Processors[i], "type") /\ Processors[i].type \in Catalog) =>
                  /\ Processors'[i] = Processors[i]
                  /\ TypeErrorsOf(errors', i) = {}
         /\ changes_made' =>
               \E i \in 1..Len(Processors) : Processors'[i] # Processors[i]
         /\ LET again == ResolveTypes(Catalog, Processors') IN
               /\ again.processors = Processors'
               /\ ~again.changed]_vars

\* an exact identifier that another identifier ends with "." + was kept,
\* beside a type that was rewritten
C9_Witness ==
    /\ pc = "services"
    /\ TwoTypedProcessors
    /\ available_processor_types # {}
    /\ Processors[1].type = <<"a", "Put">>
    /\ disk.doc.plan_details.processors[2].type = <<"Run">>
    /\ Processors[2].type = <<"org", "a", "Run">>
    /\ errors = << >>

\* C10: a create request is issued only after a static pass that ended with
\* no error: in the sandbox pass and after it self.errors holds no error of
\* the static pass, the pass is entered with an empty error list, and from
\* the prompt with errors the run only goes back to the reload or exits.
C10_NoSandboxWithStaticErrors ==
    /\ [](/\ pc = "sandbox" => errors = << >>
          /\ (pc \in SandboxPcs \/ \E i \in DOMAIN creates : creates[i] > 0) =>
                \A j \in 1..Len(errors) : errors[j].kind \notin StaticKinds)
    /\ [][(pc = "checked" /\ errors # << >>) =>
             (pc' \in {"loop", "exited"} /\ creates' = creates)]_vars

\* a create request was issued, after a static pass that rewrote a type
C10_Witness ==
    /\ pc = "inspect"
    /\ creates[1] = 1
    /\ changes_made
    /\ errors = << >>

-----------------------------------------------------------------------------
(* Relationship completeness *)

Connections == data.plan_details.connections

\* the connections of the plan that leave processor p
Outgoing(p) == {j \in 1..Len(Connections) : Connections[j].from_id = p.id}

\* the relationships of p's type that are neither auto-terminated nor
\* carried by a connection leaving p
Unaccounted(p) ==
    Relationships(p.type) \
       (p.auto_terminated_relationships
          \cup UNION {Connections[j].relationships : j \in Outgoing(p)})

\* C11 as claimed: a processor with relationships {success, failure} and failure
\* auto-terminated gets no relationship error when its one outgoing
\* connection carries success, and exactly one relationship error naming
\* {success} when it has no outgoing connection.
C11_RelationshipScenario ==
    pc = "delete" =>
      LET p == Processors[index] IN
      (/\ Relationships(p.type) = {"success", "failure"}
       /\ p.auto_terminated_relationships = {"failure"}) =>
         /\ (/\ Cardinality(Outgoing(p)) = 1
             /\ \A j \in Outgoing(p) : Connections[j].relationships = {"success"})
               => relationship_errors = << >>
         /\ Outgoing(p) = {} => relationship_errors = << {"success"} >>

\* C11 amended: such a processor gets no relationship error when its one
\* outgoing connection carries success, and none either when it has no
\* outgoing connection, although success is then unaccounted for: the check
\* covers connection sources only.
C11_ScenarioSourcesOnly ==
    pc = "delete" =>
      LET p == Processors[index] IN
      (/\ Relationships(p.type) = {"success", "failure"}
       /\ p.auto_terminated_relationships = {"failure"}) =>
         /\ (/\ Cardinality(Outgoing(p)) = 1
             /\ \A j \in Outgoing(p) : Connections[j].relationships = {"success"})
               => relationship_errors = << >>
         /\ Outgoing(p) = {} =>
               (relationship_errors = << >> /\ Unaccounted(p) = {"success"})

\* the scenario without the connection was inspected: success is unaccounted
\* for and no relationship error was computed
C11_Witness ==
    /\ pc = "delete"
    /\ Relationships(Processors[index].type) = {"success", "failure"}
    /\ Processors[index].auto_terminated_relationships = {"failure"}
    /\ Outgoing(Processors[index]) = {}
    /\ Unaccounted(Processors[index]) = {"success"}
    /\ relationship_errors = << >>

\* C12: on every attempt that is inspected, a processor that is the source of
\* a connection has a relationship error if and only if some available
\* relationship is unaccounted for, and the error names exactly the
\* unaccounted relationships; when the validation of the processor ends with
\* that attempt, the error is in self.errors.
C12_RelationshipCompleteness ==
    /\ [](pc = "delete" =>
            LET p == Processors[index] IN
            Outgoing(p) # {} =>
              /\ relationship_errors # << >> <=> Unaccounted(p) # {}
              /\ relationship_errors # << >> =>
                    relationship_errors = << Unaccounted(p) >>)
    /\ [][\A i \in DOMAIN outcome :
            (/\ outcome[i] = "pending"
             /\ outcome'[i] \in {"exhausted", "no_fix"}
             /\ Outgoing(Processors[i]) # {}
             /\ Unaccounted(Processors[i]) # {}) =>
               \E j \in 1..Len(errors') :
                  /\ errors'[j].kind = "relationship"
                  /\ errors'[j].index = i
                  /\ errors'[j].detail = Unaccounted(Processors[i])]_vars

\* a source processor whose relationship failure is unaccounted for had its
\* error recorded, naming failure only
C12_Witness ==
    /\ pc = "finish"
    /\ outcome # << >>
    /\ outcome[1] \in {"exhausted", "no_fix"}
    /\ Outgoing(Processors[1]) # {}
    /\ Unaccounted(Processors[1]) = {"failure"}
    /\ \E j \in 1..Len(errors) :
          /\ errors[j].kind = "relationship"
          /\ errors[j].index = 1
          /\ errors[j].detail = {"failure"}

-----------------------------------------------------------------------------
(* Controller-service placeholders *)

\* the value of property k of processor i of the plan in memory is the
\* placeholder
IsPlaceholder(i, k) ==
    /\ Has(Processors[i], "properties")
    /\ Has(Processors[i].properties, k)
    /\ Processors[i].properties[k] = "CREATE_NEW_CS"

PropertyNames == {"cs", "one", "extra"}

\* C13: after the controller-service check the error list holds exactly one
\* placeholder error for each (processor, property) whose value is
\* CREATE_NEW_CS, naming that processor and that property, and none for any
\* other pair.
C13_OneErrorPerPlaceholder ==
    (pc = "checked" /\ ~NoProcessors(data)) =>
      /\ \A i \in 1..Len(Processors) : \A k \in PropertyNames :
            Cardinality({j \in 1..Len(errors) :
                           errors[j] = Err("cs_placeholder", i, k)})
               = IF IsPlaceholder(i, k) THEN 1 ELSE 0
      /\ \A j \in 1..Len(errors) :
            errors[j].kind = "cs_placeholder" =>
               /\ errors[j].index \in 1..Len(Processors)
               /\ errors[j].detail \in PropertyNames

\* two placeholders in the first processor, none in the second
C13_Witness ==
    /\ pc = "checked"
    /\ TwoTypedProcessors
    /\ IsPlaceholder(1, "cs") /\ IsPlaceholder(1, "one")
    /\ \A k \in PropertyNames : ~IsPlaceholder(2, k)
    /\ Cardinality({j \in 1..Len(errors) : errors[j].kind = "cs_placeholder"}) = 2

\* the error list holds a placeholder error
HasPlaceholderError(errs) ==
    \E j \in 1..Len(errs) : errs[j].kind = "cs_placeholder"

\* C14: a placeholder error is never repaired: at the prompt with a
\* placeholder error in the list the engine changes neither the plan in
\* memory nor the file (no oracle answer is applied), and the run is never
\* in the sandbox pass or at the success exit with a placeholder in the plan.
C14_PlaceholderNeverRepaired ==
    /\ [][(pc = "checked" /\ HasPlaceholderError(errors)) =>
             (data' = data /\ disk' = disk)]_vars
    /\ []((/\ pc \in SandboxPcs \cup {"sandbox"} \/ exit_status = "exit0"
           /\ ~NoProcessors(data)) =>
             \A i \in 1..Len(Processors) : \A k \in PropertyNames :
                ~IsPlaceholder(i, k))

-----------------------------------------------------------------------------
(* The structure check *)

\* the ids of the processors of details
ProcessorIds(details) ==
    {details.processors[i].id : i \in 1..Len(details.processors)}

\* a valid plan: summary and details present with the right types, every
\* processor and connection with all its required fields of the right
\* types, processor ids unique, every connection endpoint a processor id
ValidPlan(d) ==
    /\ Has(d, "plan_summary") /\ Has(d, "plan_details")
    /\ d.mistyped = {}
    /\ LET details == d.plan_details IN
       /\ Has(details, "processors") /\ Has(details, "connections")
       /\ details.mistyped = {}
       /\ \A i \in 1..Len(details.processors) :
             LET processor == details.processors[i] IN
             /\ \A j \in 1..Len(RequiredProcessorFields) :
                   Has(processor, RequiredProcessorFields[j])
             /\ processor.mistyped = {}
       /\ \A i \in 1..Len(details.connections) :
             LET connection == details.connections[i] IN
             /\ \A f \in {"from_id", "to_id", "relationships"} : Has(connection, f)
             /\ connection.mistyped = {}
       /\ \A i, j \in 1..Len(details.processors) :
             details.processors[i].id = details.processors[j].id => i = j
       /\ \A i \in 1..Len(details.connections) :
             /\ details.connections[i].from_id \in ProcessorIds(details)
             /\ details.connections[i].to_id \in ProcessorIds(details)

\* C15: for a valid plan the structure check appends no error.
C15_ValidPlanNoStructureError ==
    (pc = "types" /\ ValidPlan(data)) => errors = << >>

\* a valid plan with a connection went through the structure check
C15_Witness ==
    /\ pc = "types"
    /\ ValidPlan(data)
    /\ Len(data.plan_details.connections) = 1
    /\ errors = << >>

\* the connections of d with an endpoint that is no processor id of d
DanglingConnections(d) ==
    IF \/ NoProcessors(d)
       \/ ~IsInstance(d.plan_details, "processors")
       \/ ~Has(d.plan_details, "connections")
       \/ ~IsInstance(d.plan_details, "connections")
       \/ \E i \in 1..Len(d.plan_details.processors) :
             ~Has(d.plan_details.processors[i], "id")
    THEN {}
    ELSE LET details == d.plan_details IN
         {i \in 1..Len(details.connections) :
            \E f \in {"from_id", "to_id"} :
               /\ Has(details.connections[i], f)
               /\ IsInstance(details.connections[i], f)
               /\ details.connections[i][f] \notin ProcessorIds(details)}

\* C16: the structure check reports every connection with an endpoint that
\* is no processor id, and the sandbox pass is never entered with such a
\* connection in the plan.
C16_DanglingEndpointReported ==
    /\ pc = "types" =>
          \A i \in DanglingConnections(data) :
             \E j \in 1..Len(errors) :
                errors[j].index = i /\ errors[j].detail[1] = "Connection"
    /\ pc \in SandboxPcs \cup {"sandbox"} => DanglingConnections(data) = {}

\* the errors of the list about field f of object i of the given sort
FieldReports(where, i, f) ==
    {j \in 1..Len(errors) : errors[j].index = i /\ errors[j].detail = <<where, f>>}

\* what the list must hold about field f of obj: one "missing" error when the
\* field is absent, one "wrong type" error when its type is wrong, else none
ReportedOnce(where, i, obj, f) ==
    IF ~Has(obj, f) \/ ~IsInstance(obj, f)
    THEN /\ Cardinality(FieldReports(where, i, f)) = 1
         /\ \A j \in FieldReports(where, i, f) :
               errors[j].kind = IF Has(obj, f) THEN "wrong_type" ELSE "missing_field"
    ELSE FieldReports(where, i, f) = {}

-----------------------------------------------------------------------------
(* Persistence and exit *)

\* the plan was loaded and the run is past the top of the loop
PlanLoaded ==
    pc \in {"structure", "types", "services", "checked", "sandbox", "finish",
            "exited"} \cup SandboxPcs

\* no save of the run failed
NoSaveFailed == \A j \in 1..Len(errors) : errors[j].kind # "save_failed"

\* C18: when the run has exited (and no write of the file failed) the file
\* holds the plan in memory; and while the plan in memory differs from the
\* file, the dirty flag is set.
C18_EveryMutationSaved ==
    /\ (pc = "exited" /\ disk.state = "ok" /\ data # Empty /\ NoSaveFailed) =>
          disk.doc = data
    /\ (PlanLoaded /\ disk.state = "ok" /\ data # Empty /\ data # disk.doc) =>
          changes_made

\* C19: a static pass starts from the plan on disk, with an empty error list
\* and a cleared dirty flag, whatever the previous iteration left behind.
C19_IterationStartsFromDisk ==
    pc = "structure" =>
      /\ disk.state = "ok"
      /\ data = disk.doc
      /\ errors = << >>
      /\ ~changes_made

\* a later iteration: the catalog is cached from an earlier one, and the
\* short type that iteration met is back in memory as it is on disk
C19_Witness ==
    /\ pc = "structure"
    /\ available_processor_types # {}
    /\ TwoTypedProcessors
    /\ Processors[1].type = <<"Run">>
    /\ Processors[2].type = <<"Nope">>
    /\ errors = << >>
    /\ ~changes_made

\* C20: the process exits with status 0 only from the end of run(), after the
\* sandbox pass and the save, with an empty error list; a run that exited
\* with an error in the list (a failed load or save included) has status 1;
\* and the builder is started only by a run that exits with status 0.
C20_ExitStatus ==
    /\ [](/\ exit_status = "exit0" => (pc = "exited" /\ errors = << >>)
          /\ (pc = "exited" /\ errors # << >>) => exit_status = "exit1"
          /\ builder_invoked => exit_status = "exit0")
    /\ [][(exit_status' = "exit0" /\ exit_status # "exit0") =>
             (pc = "finish" /\ errors = << >>)]_vars

\* a run that changed the plan, saved it, exited with 0 and started the
\* builder
C20_Witness ==
    /\ pc = "exited"
    /\ exit_status = "exit0"
    /\ builder_invoked
    /\ changes_made
    /\ outcome # << >>
    /\ disk.doc = data

-----------------------------------------------------------------------------
(* The loop over the processors *)

\* C21: when the sandbox pass is over, every processor of the plan has had at
\* least one create request, however the validation of the processors before
\* it ended.
C21_EveryProcessorAttempted ==
    (PassOver /\ outcome # << >>) =>
       \A i \in DOMAIN outcome : creates[i] >= 1

\* the step in which the create request of processor `index` raises a
\* RequestException
TransportFailure ==
    /\ pc = "attempt"
    /\ Len(errors') = Len(errors) + 1
    /\ errors'[Len(errors')] = Err("api_error", index, "RequestException")

\* C22: a transport failure of a create request appends exactly one error,
\* naming the processor, makes no oracle call, and ends the validation of the
\* processor: the loop is at the next processor (or done), and a processor
\* whose validation has ended gets no further create request.
C22_TransportFailureNotRetried ==
    /\ [][TransportFailure =>
            /\ SubSeq(errors', 1, Len(errors)) = errors
            /\ creates'[index] = creates[index] + 1
            /\ oracle_calls' = oracle_calls
            /\ outcome'[index] = "api_error"
            /\ index' = index + 1
            /\ pc' = IF index = Len(Processors) THEN "finish" ELSE "attempt"]_vars
    /\ [][\A i \in DOMAIN outcome :
            outcome[i] = "api_error" =>
               /\ i \in DOMAIN outcome' => outcome'[i] = "api_error"
               /\ i \in DOMAIN creates' => creates'[i] = creates[i]
               /\ i \in DOMAIN oracle_calls' => oracle_calls'[i] = oracle_calls[i]]_vars

\* the first processor ended with a transport failure on its second create
\* request, and the second processor was validated after it
C22_Witness ==
    /\ pc = "finish"
    /\ outcome # << >>
    /\ outcome[1] = "api_error"
    /\ creates[1] = 2
    /\ outcome[2] = "clean"
    /\ Cardinality(ErrorsOf(errors, "api_error", 1)) = 1

\* C23: the delete request of an attempt carries the id and the revision
\* version of the creation response of that attempt; whether or not the
\* runtime then removes the instance, the step does not end the run, appends
\* nothing but the inspected errors of the attempt, and decides between
\* clean, the oracle and recording the errors by those errors alone.
C23_DeleteFailureSwallowed ==
    [][pc = "delete" =>
         LET all_errors_found ==
                [j \in 1..Len(filtered_errors) |->
                    Err("config", index, filtered_errors[j])]
                \o [j \in 1..Len(relationship_errors) |->
                    Err("relationship", index, relationship_errors[j])]
         IN
         /\ delete_request' = [id |-> proc_data.id, version |-> proc_data.version]
         /\ proc_data.id = <<index, creates[index]>>
         /\ proc_data.version = creates[index]
         /\ proc_data.id \in deleted'
         /\ pc' \in {"attempt", "finish", "config_oracle"}
         /\ exit_status' = exit_status
         /\ IF all_errors_found = << >>
            THEN errors' = errors /\ outcome'[index] = "clean"
            ELSE IF retry_count < max_retries /\ gemini_api_key
            THEN errors' = errors /\ pc' = "config_oracle"
            ELSE /\ errors' = errors \o all_errors_found
                 /\ outcome'[index] = "exhausted"]_vars

\* the delete of the first processor's instance failed (the instance is
\* still there), the processor was found clean and the second was validated
C23_Witness ==
    /\ pc = "finish"
    /\ outcome # << >>
    /\ outcome[1] = "clean"
    /\ outcome[2] = "clean"
    /\ <<1, 1>> \in live \cap deleted
    /\ errors = << >>

-----------------------------------------------------------------------------
(* The answers of the config oracle *)

\* an answer with nothing to update: the call or the parse failed, the text
\* is no object, or neither of the two keys has a non-empty value
NothingToUpdate(answer) ==
    \/ answer.kind # "object"
    \/ /\ Get(answer.doc, "properties", Empty) = Empty
       /\ Get(answer.doc, "auto_terminated_relationships", {}) = {}

\* an answer that lacks one of the two keys of the contract
LacksAKey(answer) ==
    \/ answer.kind # "object"
    \/ ~Has(answer.doc, "properties")
    \/ ~Has(answer.doc, "auto_terminated_relationships")

\* the step from the oracle call that takes no fix: plan and dirty flag as
\* they were, the errors of the attempt recorded, the processor done
NoFixTaken ==
    /\ data' = data
    /\ changes_made' = changes_made
    /\ disk' = disk
    /\ errors' = errors
                 \o [j \in 1..Len(filtered_errors) |->
                        Err("config", index, filtered_errors[j])]
                 \o [j \in 1..Len(relationship_errors) |->
                        Err("relationship", index, relationship_errors[j])]
    /\ outcome'[index] = "no_fix"
    /\ oracle_calls'[index] = oracle_calls[index] + 1
    /\ index' = index + 1
    /\ pc' \in {"attempt", "finish"}

\* the step from the oracle call that applies the object doc: each key it
\* has replaces the processor's value, and a new attempt follows
FixTaken(doc) ==
    LET p == Processors[index]
        q == data'.plan_details.processors[index]
    IN
    /\ q.properties = Get(doc, "properties", p.properties)
    /\ q.auto_terminated_relationships =
          Get(doc, "auto_terminated_relationships", p.auto_terminated_relationships)
    /\ changes_made'
    /\ retry_count' = retry_count + 1
    /\ oracle_calls'[index] = oracle_calls[index] + 1
    /\ index' = index
    /\ errors' = errors
    /\ pc' = "attempt"

\* a processor whose oracle call gave no fix gets no further oracle call and
\* no further attempt
NoFixIsFinal ==
    \A i \in DOMAIN outcome :
       outcome[i] = "no_fix" =>
          /\ i \in DOMAIN outcome' => outcome'[i] = "no_fix"
          /\ i \in DOMAIN oracle_calls' => oracle_calls'[i] = oracle_calls[i]
          /\ i \in DOMAIN creates' => creates'[i] = creates[i]

\* C24, as claimed: a config-repair answer that cannot be parsed, is no
\* object, lacks one of the keys 'properties' and
\* 'auto_terminated_relationships', or has neither, is no fix: the plan and
\* the dirty flag stay as they are and the oracle is not asked again.
C24_UnusableAnswerIsNoFix ==
    /\ [](pc = "config_oracle" =>
            \A answer \in ConfigAnswers :
               (LacksAKey(answer) \/ NothingToUpdate(answer))
                  => ~ConfigFixesOf(answer).ok)
    /\ [][pc = "config_oracle" =>
            \/ NoFixTaken
            \/ \E answer \in ConfigAnswers :
                  /\ ~(LacksAKey(answer) \/ NothingToUpdate(answer))
                  /\ FixTaken(answer.doc)]_vars
    /\ [][NoFixIsFinal]_vars

\* C24, amended: a config-repair answer that cannot be parsed, is no object,
\* or has no non-empty value under 'properties' or under
\* 'auto_terminated_relationships' is no fix: the plan and the dirty flag
\* stay as they are, the errors of the attempt are recorded and the oracle
\* is not asked again for the processor.  An answer with a non-empty value
\* under one of the two keys is a fix, and the key it has is applied.
C24_NothingToUpdateIsNoFix ==
    /\ [](pc = "config_oracle" =>
            \A answer \in ConfigAnswers :
               NothingToUpdate(answer) <=> ~ConfigFixesOf(answer).ok)
    /\ [][pc = "config_oracle" =>
            \/ NoFixTaken
            \/ \E answer \in ConfigAnswers :
                  ~NothingToUpdate(answer) /\ FixTaken(answer.doc)]_vars
    /\ [][NoFixIsFinal]_vars

\* the oracle was asked once about the first processor and gave no fix: the
\* plan is the one on disk, the dirty flag is down, the errors are recorded
C24_Witness ==
    /\ pc = "finish"
    /\ outcome # << >>
    /\ outcome[1] = "no_fix"
    /\ oracle_calls[1] = 1
    /\ creates[1] = 1
    /\ ~changes_made
    /\ disk.state = "ok" /\ data = disk.doc
    /\ ErrorsOf(errors, "config", 1) # {}

-----------------------------------------------------------------------------
(* Property keys the resolved type does not know *)

\* the property keys of processor p that the descriptors of its type lack,
\* the type not supporting dynamic properties
UnsupportedKeys(p) ==
    IF SupportsDynamicProperties(p.type) THEN {}
    ELSE DOMAIN p.properties \ DOMAIN Descriptors(p.type)

\* C25: when the resolved type does not support dynamic properties, every
\* property key absent from the descriptors of the creation response is
\* among the errors surfaced on that attempt, so a processor with such a key
\* is never reported clean.
C25_UnsupportedKeysFlagged ==
    /\ pc = "delete" =>
          Len(filtered_errors) >= Cardinality(UnsupportedKeys(Processors[index]))
    /\ \A i \in DOMAIN outcome :
          outcome[i] = "clean" => UnsupportedKeys(Processors[i]) = {}

-----------------------------------------------------------------------------
(* The accounting of the errors of an attempt *)

\* the errors computed on the attempt at hand: the keys flagged for removal
\* (the key stands for its message), the surfaced diagnostics and the
\* relationship error
ComputedErrors ==
    LET flagged == SetToSeq(UnsupportedKeys(Processors[index])) IN
    [j \in 1..Len(flagged) |-> Err("config", index, flagged[j])]
    \o [j \in 1..Len(filtered_errors) |-> Err("config", index, filtered_errors[j])]
    \o [j \in 1..Len(relationship_errors) |->
           Err("relationship", index, relationship_errors[j])]

\* the step that ends the validation of a processor after an inspection
EndsInspected ==
    /\ pc \in {"delete", "config_oracle"}
    /\ index' = index + 1

\* C26: when the validation of a processor ends, every config error and
\* relationship error computed on its last attempt is in the error list, an
\* accepted repair is followed by a new attempt, and the run does not exit
\* with success while an error of a processor is outstanding.
C26_NoErrorDiscarded ==
    /\ [][EndsInspected => errors' = errors \o ComputedErrors]_vars
    /\ [][(pc \in {"config_oracle", "scheduling_oracle"} /\ index' = index) =>
             /\ pc' = "attempt"
             /\ retry_count' < MaxAttempts]_vars
    /\ [](exit_status = "exit0" =>
            /\ errors = << >>
            /\ \A i \in DOMAIN outcome :
                  /\ outcome[i] \in {"clean", "not_attempted"}
                  /\ outcome[i] = "clean" => UnsupportedKeys(Processors[i]) = {})

-----------------------------------------------------------------------------
(* Processors that are the source of no connection *)

\* C27: a processor that is the source of no connection never gets a
\* relationship error, whatever relationships its type has and whatever it
\* auto-terminates: the inspection computes none for it and the error list
\* holds none about it.
C27_NonSourceNoRelationshipError ==
    /\ pc \in {"delete", "config_oracle"} =>
          (Outgoing(Processors[index]) = {} => relationship_errors = << >>)
    /\ \A j \in 1..Len(errors) :
          errors[j].kind = "relationship" =>
             Outgoing(Processors[errors[j].index]) # {}

\* the second processor is the source of no connection and leaves
\* relationships unaccounted for, the first is a source; the second was
\* found clean
C27_Witness ==
    /\ pc = "finish"
    /\ outcome # << >>
    /\ outcome[2] = "clean"
    /\ Outgoing(Processors[1]) # {}
    /\ Outgoing(Processors[2]) = {}
    /\ Unaccounted(Processors[2]) # {}
    /\ ErrorsOf(errors, "relationship", 2) = {}

-----------------------------------------------------------------------------
(* Rejected creations *)

\* the runtime answered the POST with a status other than 201: a create
\* request was made, no instance came to be and no transport error was caught
Rejection ==
    /\ pc = "attempt"
    /\ creates'[index] = creates[index] + 1
    /\ live' = live
    /\ ~TransportFailure

\* a processor whose creation was rejected for good gets no further attempt
\* and no further oracle call
RejectedIsFinal ==
    \A i \in DOMAIN outcome :
       outcome[i] = "rejected" =>
          /\ i \in DOMAIN outcome' => outcome'[i] = "rejected"
          /\ i \in DOMAIN oracle_calls' => oracle_calls'[i] = oracle_calls[i]
          /\ i \in DOMAIN creates' => creates'[i] = creates[i]

\* C28: a creation rejected with a status other than 201 goes to the
\* scheduling oracle only if the rejection is a scheduling-period error and
\* repair budget is left; any other rejection records exactly one fatal
\* error for the processor, issues no delete, makes no oracle call and ends
\* the validation of the processor.
C28_OutrightRejectionIsFatal ==
    /\ [][Rejection =>
            IF pc' = "scheduling_oracle"
            THEN /\ proc_data'.status = "400 scheduling period"
                 /\ retry_count < max_retries
                 /\ gemini_api_key
            ELSE /\ \E status \in {"400 scheduling period", "409"} :
                       errors' = Append(errors, Err("create_failed", index, status))
                 /\ deleted' = deleted
                 /\ delete_request' = delete_request
                 /\ oracle_calls' = oracle_calls
                 /\ outcome'[index] = "rejected"
                 /\ index' = index + 1
                 /\ pc' \in {"attempt", "finish"}]_vars
    /\ [][RejectedIsFinal]_vars

\* with an oracle configured and budget left, the first creation of the
\* first processor was rejected for another reason than the scheduling
\* period: one fatal error, no instance, no delete, no oracle call
C28_Witness ==
    /\ pc = "finish"
    /\ gemini_api_key /\ max_retries >= 1
    /\ outcome # << >>
    /\ outcome[1] = "rejected"
    /\ creates[1] = 1
    /\ oracle_calls[1] = 0
    /\ Cardinality(ErrorsOf(errors, "create_failed", 1)) = 1
    /\ \A j \in ErrorsOf(errors, "create_failed", 1) : errors[j].detail = "409"
    /\ \A id \in live \cup deleted : id[1] # 1

-----------------------------------------------------------------------------
(* The scheduling repair *)

\* the step from the scheduling oracle that applies the fix: the scheduling
\* of the processor in flight is replaced, nothing else of the plan is
\* touched, and a new attempt that makes a create request follows
SchedulingFixTaken(fix) ==
    /\ data' = [data EXCEPT !.plan_details.processors[index].scheduling = fix]
    /\ changes_made'
    /\ retry_count' = retry_count + 1
    /\ retry_count' < MaxAttempts
    /\ pc' = "attempt"
    /\ index' = index
    /\ errors' = errors
    /\ outcome' = outcome

\* the step from the scheduling oracle that takes no fix: the rejection is
\* recorded and the processor is done
SchedulingNoFixTaken ==
    /\ data' = data
    /\ changes_made' = changes_made
    /\ errors' = Append(errors, Err("create_failed", index, "400 scheduling period"))
    /\ outcome'[index] = "rejected"
    /\ index' = index + 1
    /\ pc' \in {"attempt", "finish"}

\* C29: a creation rejected with a scheduling-period error, with an oracle
\* configured and fewer than max_retries repairs used for the processor,
\* goes to the scheduling oracle, which is asked once; a fix replaces only
\* the scheduling of that processor, marks the plan dirty, uses one attempt
\* and leads to a new creation; without a fix the rejection is recorded as a
\* fatal error and the processor is done.
C29_SchedulingRepair ==
    /\ [][(Rejection /\ pc' # "scheduling_oracle"
                     /\ errors'[Len(errors')].detail = "400 scheduling period")
             => ~(gemini_api_key /\ retry_count < max_retries)]_vars
    /\ [][pc = "scheduling_oracle" =>
            /\ proc_data.status = "400 scheduling period"
            /\ gemini_api_key /\ retry_count < max_retries
            /\ oracle_calls' = [oracle_calls EXCEPT ![index] = @ + 1]
            /\ creates' = creates /\ live' = live /\ deleted' = deleted
            /\ disk' = disk
            /\ \/ \E fix \in SchedulingFixes : SchedulingFixTaken(fix)
               \/ SchedulingNoFixTaken]_vars
    /\ [][(pc = "attempt" /\ retry_count > 0) => creates'[index] = creates[index] + 1]_vars

\* the first creation of the first processor was rejected for its scheduling
\* period, the oracle's fix was applied and the second creation was clean;
\* the second processor keeps its scheduling
C29_Witness ==
    /\ pc = "finish"
    /\ outcome # << >>
    /\ outcome[1] = "clean"
    /\ creates[1] = 2
    /\ oracle_calls[1] = 1
    /\ changes_made
    /\ Processors[1].scheduling = Scheduling("5 sec")
    /\ Processors[2].scheduling = Scheduling("1 sec")
    /\ disk.state = "ok"
    /\ [data EXCEPT !.plan_details.processors[1].scheduling = Scheduling("1 sec")]
          = disk.doc

-----------------------------------------------------------------------------
(* The diagnostics of the runtime *)

\* the diagnostics of the creation response at hand that are of the kinds
\* in kinds, in the order of the response
DiagnosticsOf(kinds) ==
    LET ve == proc_data.validationErrors
        RECURSIVE Pick(_)
        Pick(j) == IF j > Len(ve) THEN << >>
                   ELSE IF ve[j] \in kinds THEN <<ve[j]>> \o Pick(j + 1)
                   ELSE Pick(j + 1)
    IN Pick(1)

\* C30: of the diagnostics of the runtime, those about relationship routing
\* and about upstream connections are neither surfaced nor sent to the
\* oracle, and every other one is surfaced unchanged as a config error; a
\* processor with diagnostics of these two kinds only, and with its
\* relationships complete, is clean: no error recorded, no oracle call.
C30_RoutingDiagnosticsFiltered ==
    /\ [](pc \in {"delete", "config_oracle"} =>
            filtered_errors = DiagnosticsOf({"cfg"}))
    /\ [][pc = "delete" =>
            LET only_routing ==
                   /\ proc_data.validationErrors # << >>
                   /\ DiagnosticsOf({"rel", "up"}) = proc_data.validationErrors
                complete ==
                   \/ Outgoing(Processors[index]) = {}
                   \/ Unaccounted(Processors[index]) = {}
            IN (only_routing /\ complete) =>
                  /\ outcome'[index] = "clean"
                  /\ errors' = errors
                  /\ oracle_calls' = oracle_calls
                  /\ pc' # "config_oracle"]_vars
    /\ [][(pc \in {"delete", "config_oracle"} /\ index' = index + 1) =>
            \A j \in Len(errors) + 1 .. Len(errors') :
               errors'[j].kind = "config" => errors'[j].detail = "cfg"]_vars

\* the only diagnostics of the attempt at hand are one about routing and one
\* about upstream connections, the processor is a source with its
\* relationships complete, an oracle is configured and budget is left:
\* nothing is surfaced
C30_Witness ==
    /\ pc = "delete"
    /\ gemini_api_key /\ retry_count < max_retries
    /\ proc_data.validationErrors = <<"rel", "up">>
    /\ Outgoing(Processors[index]) # {}
    /\ Unaccounted(Processors[index]) = {}
    /\ filtered_errors = << >>
    /\ relationship_errors = << >>

-----------------------------------------------------------------------------
(* The structural checker *)

\* C31: validate_structure is read-only: it changes neither the plan in
\* memory, nor plan.json, nor the dirty flag; it only appends to the error
\* list, and what it appends are structural errors.
C31_StructureCheckReadOnly ==
    [][pc = "structure" =>
         /\ data' = data
         /\ disk' = disk
         /\ changes_made' = changes_made
         /\ available_processor_types' = available_processor_types
         /\ Len(errors') >= Len(errors)
         /\ SubSeq(errors', 1, Len(errors)) = errors
         /\ \A j \in Len(errors) + 1 .. Len(errors') :
               errors'[j].kind \in {"missing_field", "wrong_type"}]_vars

\* the checker has run on a document without plan_summary and reported it;
\* the document in memory is still the one on disk and the flag is down
C31_Witness ==
    /\ pc = "types"
    /\ ~IsFalsy(data)
    /\ ~Has(data, "plan_summary")
    /\ \E j \in 1..Len(errors) : errors[j].kind = "missing_field"
    /\ disk.state = "ok" /\ data = disk.doc
    /\ ~changes_made

\* the loaded document lacks plan_summary or plan_details
LacksTopLevelField == ~Has(data, "plan_summary") \/ ~Has(data, "plan_details")

\* C32: a loaded document that lacks plan_summary or plan_details, the
\* empty document included, has at least one structural error once the
\* structural checker has run, so it neither passes the static pass nor
\* reaches a success exit.
C32_MissingTopLevelFieldReported ==
    /\ (pc \in {"types", "services", "checked"} /\ LacksTopLevelField) =>
          \E j \in 1..Len(errors) : errors[j].kind = "missing_field"
    /\ (pc \in SandboxPcs \cup {"sandbox", "finish"}) => ~LacksTopLevelField
    /\ exit_status = "exit0" => ~LacksTopLevelField

-----------------------------------------------------------------------------
(* Termination of the sandbox pass *)

\* every processor has reached the end of its validation
AllProcessorsDone ==
    \A i \in DOMAIN outcome : outcome[i] # "pending"

\* C33: once the sandbox pass has started it terminates, whatever the
\* runtime and the oracle answer: every processor reaches the end of its
\* validation and the pass reaches the save/exit step.
C33_SandboxPassTerminates ==
    (pc = "sandbox") ~> (pc = "finish" /\ AllProcessorsDone)

-----------------------------------------------------------------------------
(* Processor ids *)

\* no two processors of the plan in memory share an id
UniqueProcessorIds ==
    \A i, j \in 1..Len(Processors) :
       i # j => Processors[i].id # Processors[j].id

\* C34: a run that ends with success hands a plan to the builder in which
\* no two processors share an id: a plan with duplicate processor ids never
\* reaches a success exit.
C34_SuccessImpliesUniqueIds ==
    (exit_status = "exit0" /\ ~NoProcessors(data)) => UniqueProcessorIds

-----------------------------------------------------------------------------
(* The attempt counter *)

\* the repairs a processor may get: max_retries, none if that is negative
RepairBudget == IF max_retries > 0 THEN max_retries ELSE 0

-----------------------------------------------------------------------------
(* Fixes and the attempts that follow them *)

\* the step that applies a fix of either oracle: the oracle was asked and
\* the loop stays with the processor
FixApplied ==
    /\ pc \in {"config_oracle", "scheduling_oracle"}
    /\ index' = index
    /\ pc' # "crashed"

\* C36: every oracle fix applied during the sandbox pass is followed by a
\* further create request for the same processor, made with the repaired
\* configuration; the oracle is not consulted on the attempt that uses up
\* the budget (attempt max_retries + 1), and at most one oracle call is
\* made per create request.
C36_FixFollowedByAttempt ==
    /\ [][FixApplied =>
            /\ pc' = "attempt"
            /\ retry_count' = retry_count + 1
            /\ retry_count' < MaxAttempts
            /\ changes_made']_vars
    /\ [][(pc = "attempt" /\ retry_count > 0) =>
            /\ index' \in {index, index + 1}
            /\ creates'[index] = creates[index] + 1
            /\ data' = data
            /\ submitted'[index] =
                  [properties |-> Processors[index].properties,
                   scheduling |-> Processors[index].scheduling]]_vars
    /\ [](pc \in {"config_oracle", "scheduling_oracle"} =>
            creates[index] <= max_retries)
    /\ [][\A i \in DOMAIN oracle_calls :
            (i \in DOMAIN oracle_calls' /\ oracle_calls'[i] # oracle_calls[i]) =>
               /\ oracle_calls'[i] = oracle_calls[i] + 1
               /\ oracle_calls[i] = creates[i] - 1
               /\ creates'[i] = creates[i]]_vars

\* the config oracle's fix changed the properties of a processor, and the
\* second create request for it carried the changed properties
C36_Witness ==
    /\ pc = "inspect"
    /\ retry_count = 1
    /\ creates[index] = 2
    /\ oracle_calls[index] = 1
    /\ submitted[index].properties = Processors[index].properties
    /\ submitted[index].properties
          # disk.doc.plan_details.processors[index].properties
    /\ submitted[index].scheduling = Scheduling("1 sec")

-----------------------------------------------------------------------------
(* What a config fix changes *)

\* the step that applies a fix of the config oracle
ConfigFixApplied ==
    /\ pc = "config_oracle"
    /\ index' = index
    /\ pc' = "attempt"

\* processor q is processor p but for its properties and its
\* auto-terminated relationships
SameButConfig(p, q) ==
    /\ DOMAIN q = DOMAIN p
    /\ \A k \in DOMAIN p \ {"properties", "auto_terminated_relationships"} :
          q[k] = p[k]

\* C37: an accepted config fix changes only the properties and the
\* auto-terminated relationships of the processor in flight, and only to
\* the values of the oracle's answer; its id, name, type and scheduling,
\* every other processor, the connections, the summary and the flow name
\* are as before.  No step of the sandbox pass changes an id, a name, a
\* type, a connection, the summary or the flow name.
C37_ConfigFixFrame ==
    /\ [][ConfigFixApplied =>
            /\ data'.plan_summary = data.plan_summary
            /\ DOMAIN data' = DOMAIN data
            /\ data'.plan_details.flow_name = data.plan_details.flow_name
            /\ data'.plan_details.connections = Connections
            /\ Len(data'.plan_details.processors) = Len(Processors)
            /\ \A i \in 1..Len(Processors) :
                  i # index => data'.plan_details.processors[i] = Processors[i]
            /\ SameButConfig(Processors[index], data'.plan_details.processors[index])
            /\ \E answer \in ConfigAnswers :
                  /\ answer.kind = "object"
                  /\ data'.plan_details.processors[index].properties =
                        Get(answer.doc, "properties", Processors[index].properties)
                  /\ data'.plan_details.processors[index].auto_terminated_relationships =
                        Get(answer.doc, "auto_terminated_relationships",
                            Processors[index].auto_terminated_relationships)]_vars
    /\ [][(pc \in SandboxPcs) =>
            /\ data'.plan_summary = data.plan_summary
            /\ data'.plan_details.flow_name = data.plan_details.flow_name
            /\ data'.plan_details.connections = Connections
            /\ Len(data'.plan_details.processors) = Len(Processors)
            /\ \A i \in 1..Len(Processors) :
                  \A k \in {"id", "name", "type"} :
                     data'.plan_details.processors[i][k] = Processors[i][k]]_vars

\* the config oracle's fix has just been applied to the first processor: its
\* properties are the oracle's and no longer those of plan.json, everything
\* else of the plan is as in plan.json
C37_Witness ==
    /\ pc = "attempt"
    /\ index = 1
    /\ retry_count = 1
    /\ oracle_calls[1] = 1
    /\ creates[1] = 1
    /\ Processors[1].properties = [cs |-> "x"]
    /\ disk.doc.plan_details.processors[1].properties = [cs |-> "svc1"]
    /\ [data EXCEPT !.plan_details.processors[1].properties = [cs |-> "svc1"]]
          = disk.doc

-----------------------------------------------------------------------------
(* What a success exit rests on *)

\* C38: the run reports success only if every processor of the loaded plan
\* had a sandbox creation that succeeded and whose inspection found neither
\* a config error nor a relationship error, whatever max_retries is.
C38_SuccessNeedsCleanAttempts ==
    (exit_status = "exit0" /\ ~NoProcessors(data)) =>
       /\ DOMAIN outcome = 1..Len(Processors)
       /\ \A i \in 1..Len(Processors) :
             /\ outcome[i] = "clean"
             /\ creates[i] >= 1
             /\ Created(i)

-----------------------------------------------------------------------------
(* The saved plan and the last attempt *)

\* processor i of the plan in plan.json
Saved(i) == disk.doc.plan_details.processors[i]

\* the properties `properties` with every controller-service property of
\* the type that allows a single value set to that value
WithSingleServices(properties, type) ==
    LET descriptors == Descriptors(type)
        single == {k \in DOMAIN descriptors :
                     /\ descriptors[k].identifiesControllerService
                     /\ Cardinality(descriptors[k].allowableValues) = 1}
    IN [k \in DOMAIN properties \cup single |->
           IF k \in single
           THEN CHOOSE v \in descriptors[k].allowableValues : TRUE
           ELSE properties[k]]

\* C39 as claimed: on success, the properties and the scheduling of every
\* processor in the saved plan are those of the create request of its last,
\* clean attempt: nothing changes a processor after that request.
C39_SavedIsSubmitted ==
    (exit_status = "exit0" /\ ~NoProcessors(data)) =>
       \A i \in DOMAIN outcome :
          outcome[i] = "clean" =>
             /\ Saved(i).properties = submitted[i].properties
             /\ Saved(i).scheduling = submitted[i].scheduling

\* C39 amended: on success, the scheduling of every processor in the saved
\* plan is that of the create request of its last, clean attempt, and its
\* properties are those of that request with the single-valued
\* controller-service properties set to their value by the inspection of
\* that attempt; the inspection changes nothing else, the delete and the
\* end of the attempt change nothing, and a processor whose validation has
\* ended is not changed again.
C39_SavedIsSubmittedCorrected ==
    /\ []((exit_status = "exit0" /\ ~NoProcessors(data)) =>
            \A i \in DOMAIN outcome :
               outcome[i] = "clean" =>
                  /\ Saved(i) = Processors[i]
                  /\ Saved(i).scheduling = submitted[i].scheduling
                  /\ Saved(i).properties =
                        WithSingleServices(submitted[i].properties, Saved(i).type))
    /\ [][pc = "inspect" =>
            /\ \A i \in 1..Len(Processors) :
                  i # index => data'.plan_details.processors[i] = Processors[i]
            /\ \/ data' = data
               \/ data' = [data EXCEPT !.plan_details.processors[index].properties =
                             WithSingleServices(submitted[index].properties,
                                                Processors[index].type)]]_vars
    /\ [][pc = "delete" => data' = data]_vars
    /\ [][(pc \in SandboxPcs) =>
            \A i \in DOMAIN outcome :
               outcome[i] # "pending" =>
                  data'.plan_details.processors[i] = Processors[i]]_vars

\* the run ended with success; the create request of the first processor's
\* only attempt carried cs = x, and the saved plan holds cs = svc1
C39_Witness ==
    /\ exit_status = "exit0"
    /\ ~NoProcessors(data)
    /\ outcome # << >>
    /\ outcome[1] = "clean"
    /\ creates[1] = 1
    /\ submitted[1].properties.cs = "x"
    /\ Saved(1).properties.cs = "svc1"
    /\ Saved(1).scheduling = submitted[1].scheduling

-----------------------------------------------------------------------------
(* The structural repair *)

StaticPcs == {"loop", "structure", "types", "services", "checked"}

\* the step from the prompt back to the top of the loop that leaves plan,
\* file and dirty flag as they are
NothingRepaired ==
    /\ data' = data
    /\ disk' = disk
    /\ changes_made' = changes_made

\* the step from the prompt back to the top of the loop that replaces
\* plan_details by the corrected details and writes the plan to plan.json
\* (or reports that the write failed)
PlanRepaired(fixed_details) ==
    /\ data'.plan_details = fixed_details
    /\ DOMAIN data' = DOMAIN data \cup {"plan_details"}
    /\ \A k \in DOMAIN data \ {"plan_details", "mistyped"} : data'[k] = data[k]
    /\ changes_made'
    /\ \/ disk' = [state |-> "ok", doc |-> data']
       \/ /\ Len(errors') > 0
          /\ errors'[Len(errors')].kind = "save_failed"

\* C40: a structural repair is all-or-nothing.  From the prompt the run goes
\* back to the top of the loop either with the plan in memory, plan.json
\* and the dirty flag unchanged, or with plan_details replaced by the
\* oracle's corrected details, the dirty flag set and the plan written to
\* plan.json; the loop then reloads the file and runs the static pass from
\* its start, and no sandbox activity happens before the static pass has
\* passed.
C40_StructuralRepairAllOrNothing ==
    /\ [][(pc = "checked" /\ pc' = "loop") =>
            \/ NothingRepaired
            \/ \E fixed_details \in StructureFixes : PlanRepaired(fixed_details)]_vars
    /\ [][pc = "loop" =>
            \/ pc' = "structure" /\ data' = disk.doc /\ errors' = << >>
                                 /\ ~changes_made'
            \/ pc' = "exited" /\ exit_status' = "exit1"]_vars
    /\ [][pc' = "sandbox" => (pc = "checked" /\ errors = << >>)]_vars
    /\ [](pc \in StaticPcs =>
            /\ creates = << >>
            /\ oracle_calls = << >>
            /\ live = {})

\* the structure oracle's corrected details have just been put into the
\* plan and written to plan.json; the errors that led to the repair are
\* still listed and the loop is about to reload the file
C40_Witness ==
    /\ pc = "loop"
    /\ changes_made
    /\ errors # << >>
    /\ data # Empty
    /\ data.plan_details \in StructureFixes
    /\ disk = [state |-> "ok", doc |-> data]

====
